---- MODULE Spec2Model ----
(***************************************************************************)
(* Model of flaki's agent core: the Repository Explorer (tools/explore),   *)
(* the Sandbox Manager (tools/docker) with its TmpDirManager               *)
(* (utils/tmpdir), the tool registry (utils/defineAiFunction), the         *)
(* reproduction agent loop and its driver (agents/reproducer), the         *)
(* classification agent loop and its driver (agents/filterer), and the     *)
(* process events the TmpDirManager listens to.                            *)
(*                                                                         *)
(* JavaScript values are tagged records [t, v]; strings that the code      *)
(* builds by interpolation are sequences of their pieces, so that two      *)
(* messages are equal exactly when their text is.                          *)
(***************************************************************************)
EXTENDS Integers, Sequences, FiniteSets, TLC

VARIABLES
    explorers,          \* instance -> [repoFullName, owner, repo] of createExploreFunctions
    repoCache,          \* cache object -> (cacheKey -> cached JS value)
    apiCalls,           \* instance -> sequence of getContent requests it issued
    fetched,            \* instance -> (cacheKey -> value of its first successful fetch)
    lastExplore,        \* the last readFile / listDir call and its outcome
    sandboxes,          \* instance -> [repoUrl, repoDir, containerId] of createDockerFunctions
    containers,         \* container runtime: id -> [exists, running]
    dirs,               \* TmpDirManager.dirs
    disk,               \* temporary directories present on disk
    nextDir,            \* number of temporary directories created so far
    lastDocker,         \* the last sandbox call and its outcome
    createdOk,          \* instance -> a createContainer call has succeeded on it
    cleaning,           \* the TmpDirManager.cleanup() call that awaits its removals
    exited,             \* the Node.js process is gone
    pc,                 \* position of reproduceWithGemini
    maxIterations,      \* its second parameter
    i,                  \* loop counter of reproducer.ts:220
    functionCalls,      \* the batch of the current turn
    callIdx,            \* index of the next call of the batch
    contents,           \* the conversation
    functionCallHistory,
    agentResponses,
    finalResult,
    trace,              \* observations of the run: model invocations, dispatches
    driver              \* runReproducerAgent: its position, input, options and finalOutput

explorerVars == <<explorers, repoCache, apiCalls, fetched, lastExplore>>
dockerVars ==
    <<sandboxes, containers, dirs, disk, nextDir, lastDocker, createdOk, cleaning, exited>>
loopVars == <<pc, maxIterations, i, functionCalls, callIdx, contents,
                  functionCallHistory, agentResponses, finalResult, trace, driver>>
vars == <<explorers, repoCache, apiCalls, fetched, lastExplore,
          sandboxes, containers, dirs, disk, nextDir, lastDocker, createdOk, cleaning, exited,
          pc, maxIterations, i, functionCalls, callIdx, contents,
          functionCallHistory, agentResponses, finalResult, trace, driver>>

(***************************************************************************)
(* Bounds                                                                  *)
(***************************************************************************)
MaxExploreCalls == 2      \* readFile / listDir calls in an Explorer run
MaxDockerCalls == 3       \* sandbox calls in a Sandbox Manager run
MaxN == 2                 \* largest configured maxIterations
MaxToolCalls == 3         \* tool calls the model requests in one agent run
MaxNameLen == 4           \* longest repository identity handed to createExploreFunctions
MaxIssues == 2            \* longest input list of runReproducerAgent
MaxSignals == 1           \* signals delivered to the process during one run

(***************************************************************************)
(* JavaScript values                                                       *)
(***************************************************************************)
JSUndefined == [t |-> "undefined", v |-> <<>>]
JSNull == [t |-> "null", v |-> <<>>]
JSString(s) == [t |-> "string", v |-> s]
JSArray(a) == [t |-> "array", v |-> a]
JSObject(o) == [t |-> "object", v |-> o]
\* a thrown Error / TypeError with its message
JSError(m) == [t |-> "error", v |-> m]

\* obj[key] on a plain object whose own properties are the domain of obj
OwnProperty(obj, key) == IF key \in DOMAIN obj THEN obj[key] ELSE JSUndefined

SetProperty(obj, key, val) ==
    [k \in DOMAIN obj \cup {key} |-> IF k = key THEN val ELSE obj[k]]

Returned(val) == [threw |-> FALSE, value |-> val]
Threw(msg) == [threw |-> TRUE, value |-> JSError(msg)]

(***************************************************************************)
(* Repository Explorer                                                     *)
(***************************************************************************)
Instances == {1, 2}
Paths == {".", "a"}

\* repoFullName as its characters
ValidRepoNames == {<<"o", "/", "r">>, <<"p", "/", "q">>}

\* String.prototype.split('/'): the segments between the separators
RECURSIVE SplitFrom(_, _, _)
SplitFrom(s, k, cur) ==
    IF k > Len(s) THEN <<cur>>
    ELSE IF s[k] = "/" THEN <<cur>> \o SplitFrom(s, k + 1, <<>>)
    ELSE SplitFrom(s, k + 1, Append(cur, s[k]))

Split(s) == SplitFrom(s, 1, <<>>)

\* const [owner, repo] = repoFullName.split('/'); a missing element is undefined
OwnerOf(repoFullName) == Split(repoFullName)[1]
RepoOf(repoFullName) ==
    IF Len(Split(repoFullName)) >= 2 THEN Split(repoFullName)[2] ELSE <<>>

\* !owner || !repo : the empty string and undefined are falsy
InvalidRepoName(repoFullName) ==
    OwnerOf(repoFullName) = <<>> \/ RepoOf(repoFullName) = <<>>

\* Buffer.from(content, 'base64').toString('utf-8'), one 4-symbol group per character
Base64Char(g) ==
    CASE g = "aA==" -> "h"
      [] g = "aQ==" -> "i"
      [] OTHER -> "?"

Base64Decode(content) == [k \in 1..Len(content) |-> Base64Char(content[k])]

\* what octokit.rest.repos.getContent can answer
FileData(content) ==
    [k |-> "data", isArray |-> FALSE, hasContent |-> TRUE, type |-> "file",
     content |-> content, names |-> <<>>, status |-> 200, message |-> <<>>]
ListData(names) ==
    [k |-> "data", isArray |-> TRUE, hasContent |-> FALSE, type |-> "dir",
     content |-> <<>>, names |-> names, status |-> 200, message |-> <<>>]
SubmoduleData ==
    [k |-> "data", isArray |-> FALSE, hasContent |-> FALSE, type |-> "submodule",
     content |-> <<>>, names |-> <<>>, status |-> 200, message |-> <<>>]
RequestError(status, message) ==
    [k |-> "reject", isArray |-> FALSE, hasContent |-> FALSE, type |-> "none",
     content |-> <<>>, names |-> <<>>, status |-> status, message |-> <<message>>]

Responses ==
    {FileData(<<>>), FileData(<<"aA==", "aQ==">>), ListData(<<>>), ListData(<<"x">>),
     SubmoduleData, RequestError(404, "Not Found"), RequestError(500, "Internal Server Error")}

\* the error object caught at explore.ts:52 / :94
Caught(status, message) == [status |-> status, message |-> message]

\* cached !== undefined  (explore.ts:27)
FileCacheHit(cached) == cached.t # "undefined"

\* mutant: an emptiness test, a cached empty listing counts as a miss
DirCacheHitNonEmpty(cached) == cached.t \notin {"undefined", "null"} /\ cached.v # <<>>

\* cached != null  (explore.ts:74): neither undefined nor null
DirCacheHit(cached) == cached.t \notin {"undefined", "null"}

\* mutant: one module-level cache object for every instance
SharedCache(e) == 1

\* the cache object this instance's closures captured (explore.ts:7)
CacheOf(e) == e

\* mutant: the catch block reports the path and drops the cause
ReadFileCatchNoCause(path, error) ==
    IF error.status = 404
    THEN Threw(<<"File not found: ", path>>)
    ELSE Threw(<<"Failed to read file ", path>>)

\* explore.ts:52-57
ReadFileCatch(path, error) ==
    IF error.status = 404
    THEN Threw(<<"File not found: ", path>>)
    ELSE Threw(<<"Failed to read file ", path, ": ">> \o error.message)

\* mutant: the catch block of readFile pasted into listDir
ListDirCatchPasted(path, error) == ReadFileCatch(path, error)

\* explore.ts:94-99
ListDirCatch(path, error) ==
    IF error.status = 404
    THEN Threw(<<"Directory not found: ", path>>)
    ELSE Threw(<<"Failed to list directory ", path, ": ">> \o error.message)

\* readFile.implementation: [cache, out, requests]
ReadFile(cache, ex, path, response) ==
    LET cacheKey == <<"file", ex.repoFullName, path>>
        cached == OwnProperty(cache, cacheKey)
        request == [owner |-> ex.owner, repo |-> ex.repo, path |-> path]
    IN  IF FileCacheHit(cached)
        THEN [cache |-> cache, out |-> Returned(cached), requests |-> <<>>]
        ELSE IF response.k = "reject"
        THEN [cache |-> cache, requests |-> <<request>>,
              out |-> ReadFileCatch(path, Caught(response.status, response.message))]
        ELSE IF response.isArray
        THEN [cache |-> cache, requests |-> <<request>>,
              out |-> ReadFileCatch(path, Caught(0, <<path, " is a directory, not a file">>))]
        ELSE IF response.hasContent /\ response.type = "file"
        THEN LET content == JSString(Base64Decode(response.content))
             IN  [cache |-> SetProperty(cache, cacheKey, content),
                  requests |-> <<request>>, out |-> Returned(content)]
        ELSE [cache |-> cache, requests |-> <<request>>,
              out |-> ReadFileCatch(path, Caught(0, <<"Unable to read file: ", path>>))]

\* mutant: listDir hands the path to the backend as given
RequestPathAsGiven(path) == path

\* path === '.' ? '' : path  (explore.ts:82)
RequestPath(path) == IF path = "." THEN "" ELSE path

\* mutant: a rejected listing is remembered as an empty directory
ListDirCachingFailures(cache, ex, path, response) ==
    LET cacheKey == <<"dir", ex.repoFullName, path>>
        cached == OwnProperty(cache, cacheKey)
        request == [owner |-> ex.owner, repo |-> ex.repo, path |-> RequestPath(path)]
    IN  IF DirCacheHit(cached)
        THEN [cache |-> cache, out |-> Returned(cached), requests |-> <<>>]
        ELSE IF response.k = "reject"
        THEN [cache |-> SetProperty(cache, cacheKey, JSArray(<<>>)),
              requests |-> <<request>>,
              out |-> ListDirCatch(path, Caught(response.status, response.message))]
        ELSE IF response.isArray
        THEN LET listing == JSArray(response.names)
             IN  [cache |-> SetProperty(cache, cacheKey, listing),
                  requests |-> <<request>>, out |-> Returned(listing)]
        ELSE [cache |-> cache, requests |-> <<request>>,
              out |-> ListDirCatch(path, Caught(0, <<path, " is a file, not a directory">>))]

\* listDir.implementation: [cache, out, requests]
ListDir(cache, ex, path, response) ==
    LET cacheKey == <<"dir", ex.repoFullName, path>>
        cached == OwnProperty(cache, cacheKey)
        request == [owner |-> ex.owner, repo |-> ex.repo, path |-> RequestPath(path)]
    IN  IF DirCacheHit(cached)
        THEN [cache |-> cache, out |-> Returned(cached), requests |-> <<>>]
        ELSE IF response.k = "reject"
        THEN [cache |-> cache, requests |-> <<request>>,
              out |-> ListDirCatch(path, Caught(response.status, response.message))]
        ELSE IF response.isArray
        THEN LET listing == JSArray(response.names)
             IN  [cache |-> SetProperty(cache, cacheKey, listing),
                  requests |-> <<request>>, out |-> Returned(listing)]
        ELSE [cache |-> cache, requests |-> <<request>>,
              out |-> ListDirCatch(path, Caught(0, <<path, " is a file, not a directory">>))]

\* createExploreFunctions(repoFullName), explore.ts:6-12
NewExplorer(repoFullName) ==
    [repoFullName |-> repoFullName, owner |-> OwnerOf(repoFullName),
     repo |-> RepoOf(repoFullName)]

NoExploreCall ==
    [inst |-> 0, op |-> "none", path |-> "", response |-> SubmoduleData,
     out |-> Returned(JSUndefined), requests |-> <<>>, n |-> 0,
     prior |-> JSUndefined]

\* the implementation of tool `op` of an Explorer, applied to the cache it captured
ExploreImpl(e, op, path, response) ==
    IF op = "readFile"
    THEN ReadFile(repoCache[CacheOf(e)], explorers[e], path, response)
    ELSE ListDir(repoCache[CacheOf(e)], explorers[e], path, response)

\* the effect of one readFile / listDir call of instance e on the Explorer state
ExploreEffects(e, op, path, response) ==
    LET r == ExploreImpl(e, op, path, response)
        key == <<IF op = "readFile" THEN "file" ELSE "dir", explorers[e].repoFullName, path>>
        ok == r.requests # <<>> /\ ~r.out.threw
    IN  /\ repoCache' = [repoCache EXCEPT ![CacheOf(e)] = r.cache]
        /\ apiCalls' = [apiCalls EXCEPT ![e] = @ \o
              [k \in 1..Len(r.requests) |->
                  [op |-> op, path |-> path, request |-> r.requests[k], ok |-> ok]]]
        /\ fetched' = IF ok /\ key \notin DOMAIN fetched[e]
                      THEN [fetched EXCEPT ![e] = SetProperty(@, key, r.out.value)]
                      ELSE fetched
        /\ lastExplore' = [inst |-> e, op |-> op, path |-> path,
                           response |-> IF r.requests = <<>> THEN SubmoduleData ELSE response,
                           out |-> r.out, requests |-> r.requests,
                           n |-> lastExplore.n + 1,
                           prior |-> OwnProperty(fetched[e], key)]

\* a direct call of readFile.implementation
readFile(e, path, response) ==
    /\ lastExplore.n < MaxExploreCalls
    /\ ExploreEffects(e, "readFile", path, response)
    /\ UNCHANGED <<explorers, dockerVars, loopVars>>

\* a direct call of listDir.implementation
listDir(e, path, response) ==
    /\ lastExplore.n < MaxExploreCalls
    /\ ExploreEffects(e, "listDir", path, response)
    /\ UNCHANGED <<explorers, dockerVars, loopVars>>

NameChars == {"o", "/"}

\* every string of at most MaxNameLen characters
RepoNames == UNION {[1..n -> NameChars] : n \in 0..MaxNameLen}

\* createExploreFunctions(repoFullName), whose result the caller keeps as instance e
\* (explore.ts:6-12, 103)
createExploreFunctions(e, repoFullName) ==
    /\ lastExplore.n < MaxExploreCalls
    /\ IF InvalidRepoName(repoFullName)
       THEN /\ lastExplore' =
                  [inst |-> e, op |-> "createExploreFunctions",
                   repoFullName |-> repoFullName,
                   out |-> Threw(<<"Invalid repository name format: ">> \o repoFullName
                                 \o <<". Expected 'owner/repo'">>),
                   requests |-> <<>>, n |-> lastExplore.n + 1]
            /\ UNCHANGED <<explorers, repoCache, apiCalls, fetched>>
       ELSE /\ explorers' = [explorers EXCEPT ![e] = NewExplorer(repoFullName)]
            /\ repoCache' = [repoCache EXCEPT ![CacheOf(e)] = <<>>]
            /\ apiCalls' = [apiCalls EXCEPT ![e] = <<>>]
            /\ fetched' = [fetched EXCEPT ![e] = <<>>]
            /\ lastExplore' =
                  [inst |-> e, op |-> "createExploreFunctions",
                   repoFullName |-> repoFullName,
                   out |-> Returned(JSObject(<<"readFile", "listDir">>)),
                   requests |-> <<>>, n |-> lastExplore.n + 1]
    /\ UNCHANGED <<dockerVars, loopVars>>

(***************************************************************************)
(* Sandbox Manager                                                         *)
(***************************************************************************)
NoContainerMessage == <<"No container has been created yet. Call createContainer first.">>

RepoUrl(repoFullName) == <<"https://github.com/">> \o repoFullName \o <<".git">>

\* createDockerFunctions(repoFullName?), reproducer.ts:306-310
NewSandbox(repoFullName) ==
    [repoUrl |-> IF repoFullName = <<>> THEN JSUndefined
                 ELSE JSString(RepoUrl(repoFullName)),
     repoDir |-> JSUndefined, containerId |-> JSUndefined]

NoDockerCall ==
    [inst |-> 0, op |-> "none", out |-> Returned(JSUndefined), calls |-> <<>>, n |-> 0]

\* no cleanup() call is in flight
NoCleanup == [pending |-> FALSE, rejected |-> FALSE]

\* tmpDirManager.create(prefix): the directory it makes and tracks
TmpDir(prefix, k) == <<prefix, k>>

BuildOutcomes == {"cloneFails", "transportError", "streamError", "stepFails", "imageMissing", "built"}

\* mutant: every failure inside the try block is reported with one message
BuildErrorUniform(outcome, imageName) == <<"Docker build failed: ", "unknown">>

\* the error thrown inside the try block of buildImage (reproducer.ts:337-377), before the
\* outer catch wraps it
BuildError(outcome, imageName) ==
    CASE outcome = "transportError" -> <<"connect ENOENT /var/run/docker.sock">>
      [] outcome = "streamError" -> <<"Docker build failed: ", "stream error">>
      [] outcome = "stepFails" -> <<"Docker build failed: ", "step failed">>
      [] outcome = "imageMissing" ->
            <<"Image build completed but image '", imageName, "' was not found: ",
              "no such image">>

\* buildImage.implementation, reproducer.ts:320-378
BuildImage(sb, imageName, outcome, nd) ==
    LET cloned == sb.repoUrl.t # "undefined"
        repoDir == TmpDir("repo-clone", nd + 1)
        made == IF cloned THEN 1 ELSE 0
        sb1 == IF cloned THEN [sb EXCEPT !.repoDir = JSString(repoDir)] ELSE sb
        buildContextDir == TmpDir("docker-build", nd + made + 1)
    IN  IF cloned /\ outcome = "cloneFails"
        THEN [sb |-> sb1, created |-> {repoDir}, n |-> 1, calls |-> <<>>,
              runtime |-> "cloneFails",
              out |-> Threw(<<"Command failed: git clone">>)]
        ELSE [sb |-> sb1,
              runtime |-> IF outcome = "cloneFails" THEN "built" ELSE outcome,
              created |-> (IF cloned THEN {repoDir} ELSE {}) \cup {buildContextDir},
              n |-> made + 1,
              calls |-> IF outcome = "transportError" THEN <<"buildImage">>
                        ELSE IF outcome \in {"streamError", "stepFails"}
                        THEN <<"buildImage", "followProgress">>
                        ELSE <<"buildImage", "followProgress", "inspectImage">>,
              out |-> IF outcome \in {"built", "cloneFails"}
                      THEN Returned(JSString(<<imageName>>))
                      ELSE Threw(<<"Failed to build Docker image '", imageName, "': ">>
                                 \o BuildError(outcome, imageName))]

CreateOutcomes == {"createFails", "startFails", "started"}

\* mutant: a container that does not start resets the active container
ActiveClearedOnFailure(sb, outcome, id) ==
    IF outcome = "started" THEN [sb EXCEPT !.containerId = JSString(<<"c", id>>)]
    ELSE [sb EXCEPT !.containerId = JSUndefined]

\* mutant: containerId is assigned before container.start()
ActiveBeforeStart(sb, outcome, id) == [sb EXCEPT !.containerId = JSString(<<"c", id>>)]

\* mutant: containerId ??= container.id, the first container stays the active one
ActiveKeepFirst(sb, outcome, id) ==
    IF outcome = "started" /\ sb.containerId.t = "undefined"
    THEN [sb EXCEPT !.containerId = JSString(<<"c", id>>)] ELSE sb

\* containerId = container.id  (reproducer.ts:403), reached only after container.start()
ActiveAfterCreate(sb, outcome, id) ==
    IF outcome = "started" THEN [sb EXCEPT !.containerId = JSString(<<"c", id>>)] ELSE sb

\* mutant: the container is created without any bind
BindsNone(sb) == <<>>

\* const binds = repoDir ? [`${repoDir}:/workspace`] : []  (reproducer.ts:391)
Binds(sb) ==
    IF sb.repoDir.t # "undefined" /\ sb.repoDir.v # <<>>
    THEN <<<<sb.repoDir.v, ":/workspace">>>> ELSE <<>>

\* createContainer.implementation, reproducer.ts:388-405
\* cs is the runtime's containers; the new container's id is its position
CreateContainer(sb, cs, imageName, outcome) ==
    LET binds == Binds(sb)
        id == Len(cs) + 1
    IN  IF outcome = "createFails"
        THEN [sb |-> sb, cs |-> cs, calls |-> <<"createContainer">>,
              out |-> Threw(<<"No such image: ", imageName>>)]
        ELSE [sb |-> ActiveAfterCreate(sb, outcome, id),
              cs |-> Append(cs, [image |-> imageName, binds |-> binds,
                                 running |-> outcome = "started"]),
              calls |-> <<"createContainer", "start">>,
              out |-> IF outcome = "started" THEN Returned(JSString(<<"c", id>>))
                      ELSE Threw(<<"container start failed">>)]

ExecOutcomes == {"inspectFails", "startFails", "execFails", "empty", "text", "nonzero"}

\* the exit code of the command in the container: the shell does not find it
\* (127), it runs `exit 42`, or it succeeds
ExitCode(outcome) ==
    CASE outcome = "text" -> 127
      [] outcome = "nonzero" -> 42
      [] OTHER -> 0

\* what the command wrote to stdout and stderr
Output(command, outcome) ==
    IF outcome = "text" THEN <<"sh: ", command, ": not found">> ELSE <<>>

\* !containerId  (reproducer.ts:418)
NoActiveContainer(sb) == sb.containerId.t = "undefined" \/ sb.containerId.v = <<>>

\* mutant: the container is inspected but never started
BeforeExecNoHeal(running) == <<"inspect">>

\* the runtime calls made before exec (reproducer.ts:425-428); `running` is
\* info.State.Running
BeforeExec(running) == IF running THEN <<"inspect">> ELSE <<"inspect", "start">>

\* mutant: a non-zero exit code is raised as an error
ExecResultChecked(outcome, output) ==
    IF ExitCode(outcome) # 0 THEN Threw(<<"Command failed">> \o output)
    ELSE Returned(JSString(output))

\* return await text(stream.map(...))  (reproducer.ts:435-439)
ExecResult(outcome, output) == Returned(JSString(output))

\* executeCommand.implementation, reproducer.ts:415-440
\* target is the container the runtime was asked about, 0 if none
ExecuteCommand(sb, cs, command, outcome) ==
    IF NoActiveContainer(sb)
    THEN [cs |-> cs, calls |-> <<>>, target |-> 0, exitCode |-> 0,
          out |-> Threw(NoContainerMessage)]
    ELSE LET id == sb.containerId.v[2]
             running == cs[id].running
             pre == BeforeExec(running)
             started == \E k \in DOMAIN pre : pre[k] = "start"
         IN  IF outcome = "inspectFails"
             THEN [cs |-> cs, calls |-> <<"inspect">>, target |-> id, exitCode |-> 0,
                   out |-> Threw(<<"inspect failed">>)]
             ELSE IF started /\ outcome = "startFails"
             THEN [cs |-> cs, calls |-> pre, target |-> id, exitCode |-> 0,
                   out |-> Threw(<<"container start failed">>)]
             ELSE LET cs1 == IF started THEN [cs EXCEPT ![id].running = TRUE] ELSE cs
                  IN  IF outcome = "execFails"
                      THEN [cs |-> cs1, calls |-> Append(pre, "exec"), target |-> id,
                            exitCode |-> 0, out |-> Threw(<<"exec failed">>)]
                      ELSE [cs |-> cs1, calls |-> pre \o <<"exec", "execStart">>,
                            target |-> id, exitCode |-> ExitCode(outcome),
                            out |-> ExecResult(outcome, Output(command, outcome))]

ImageNames == {"img"}
Commands == {"nonexistent-command"}

\* bookkeeping of one sandbox call
DockerCalled(s, op, r) ==
    lastDocker' = [inst |-> s, op |-> op, out |-> r.out, calls |-> r.calls,
                   n |-> lastDocker.n + 1]

\* mutant: the manager remembers the directories of its latest caller only
TrackedLatestOnly(tracked, created) == IF created = {} THEN tracked ELSE created

\* this.dirs.add(dir) for every directory create() has made (tmpdir.ts:19)
Tracked(tracked, created) == tracked \cup created

BuildImageEffects(s, imageName, outcome) ==
    LET r == BuildImage(sandboxes[s], imageName, outcome, nextDir)
    IN  /\ sandboxes' = [sandboxes EXCEPT ![s] = r.sb]
        /\ dirs' = Tracked(dirs, r.created)
        /\ disk' = disk \cup r.created
        /\ nextDir' = nextDir + r.n
        /\ lastDocker' = [inst |-> s, op |-> "buildImage", out |-> r.out,
                          calls |-> r.calls, n |-> lastDocker.n + 1,
                          imageName |-> imageName, runtime |-> r.runtime]
        /\ UNCHANGED <<containers, createdOk, cleaning, exited>>

CreateContainerEffects(s, imageName, outcome) ==
    LET r == CreateContainer(sandboxes[s], containers, imageName, outcome)
    IN  /\ sandboxes' = [sandboxes EXCEPT ![s] = r.sb]
        /\ containers' = r.cs
        /\ createdOk' = [createdOk EXCEPT ![s] = @ \/ ~r.out.threw]
        /\ DockerCalled(s, "createContainer", r)
        /\ UNCHANGED <<dirs, disk, nextDir, cleaning, exited>>

ExecuteCommandEffects(s, command, outcome) ==
    LET r == ExecuteCommand(sandboxes[s], containers, command, outcome)
    IN  /\ containers' = r.cs
        /\ lastDocker' = [inst |-> s, op |-> "executeCommand", out |-> r.out,
                          calls |-> r.calls, n |-> lastDocker.n + 1,
                          target |-> r.target, exitCode |-> r.exitCode]
        /\ UNCHANGED <<sandboxes, dirs, disk, nextDir, createdOk, cleaning, exited>>

\* direct calls of the three implementations
buildImage(s, imageName, outcome) ==
    /\ lastDocker.n < MaxDockerCalls
    /\ BuildImageEffects(s, imageName, outcome)
    /\ UNCHANGED <<explorerVars, loopVars>>

createContainer(s, imageName, outcome) ==
    /\ lastDocker.n < MaxDockerCalls
    /\ CreateContainerEffects(s, imageName, outcome)
    /\ UNCHANGED <<explorerVars, loopVars>>

executeCommand(s, command, outcome) ==
    /\ lastDocker.n < MaxDockerCalls
    /\ ExecuteCommandEffects(s, command, outcome)
    /\ UNCHANGED <<explorerVars, loopVars>>

\* cleanup() up to its await (tmpdir.ts:23-27): a removal is started for every
\* tracked directory; those of `kept` are rejected by the file system
CleanupBegin(kept) ==
    /\ ~cleaning.pending
    /\ kept \subseteq dirs
    /\ disk' = disk \ (dirs \ kept)
    /\ cleaning' = [pending |-> TRUE, rejected |-> kept # {}]
    /\ UNCHANGED <<sandboxes, containers, dirs, nextDir, lastDocker, createdOk, exited,
                   explorerVars, loopVars>>

\* the await of tmpdir.ts:24 settles: dirs.clear() runs unless a removal was
\* rejected (tmpdir.ts:28)
CleanupEnd ==
    /\ cleaning.pending
    /\ cleaning' = NoCleanup
    /\ dirs' = IF cleaning.rejected THEN dirs ELSE {}
    /\ lastDocker' = [inst |-> 0, op |-> "cleanup",
                      out |-> IF cleaning.rejected
                              THEN Threw(<<"EACCES: permission denied, rm">>)
                              ELSE Returned(JSUndefined),
                      calls |-> <<>>, n |-> lastDocker.n]
    /\ UNCHANGED <<sandboxes, containers, disk, nextDir, createdOk, exited,
                   explorerVars, loopVars>>

\* the container runtime stops a running container behind the Sandbox Manager's back
ContainerStops(id) ==
    /\ id \in DOMAIN containers
    /\ containers[id].running
    /\ containers' = [containers EXCEPT ![id].running = FALSE]
    /\ UNCHANGED <<sandboxes, dirs, disk, nextDir, lastDocker, createdOk, cleaning, exited,
                   explorerVars, loopVars>>

\* runReproducerAgent is not running
NoDriver ==
    [pc |-> "none", filteredResults |-> <<>>, force |-> FALSE, maxIterations |-> 0,
     i |-> 0, finalOutput |-> <<>>, written |-> <<>>, error |-> <<>>]

IdleLoop ==
    /\ pc = "idle"
    /\ maxIterations = 0
    /\ i = 0
    /\ functionCalls = <<>>
    /\ callIdx = 0
    /\ contents = <<>>
    /\ functionCallHistory = <<>>
    /\ agentResponses = <<>>
    /\ finalResult = JSNull
    /\ trace = <<>>
    /\ driver = NoDriver

IdleDocker ==
    /\ sandboxes = [s \in Instances |-> NewSandbox(<<>>)]
    /\ containers = <<>>
    /\ dirs = {}
    /\ disk = {}
    /\ nextDir = 0
    /\ lastDocker = NoDockerCall
    /\ createdOk = [s \in Instances |-> FALSE]
    /\ cleaning = NoCleanup
    /\ exited = FALSE

\* two Explorer instances, each constructed for some repository
InitExplore ==
    /\ \E n \in ValidRepoNames :
          explorers = [e \in Instances |->
                          IF e = 1 THEN NewExplorer(<<"o", "/", "r">>) ELSE NewExplorer(n)]
    /\ repoCache = [c \in Instances |-> <<>>]
    /\ apiCalls = [e \in Instances |-> <<>>]
    /\ fetched = [e \in Instances |-> <<>>]
    /\ lastExplore = NoExploreCall
    /\ IdleDocker
    /\ IdleLoop

NextExplore ==
    \/ \E e \in Instances, path \in Paths, response \in Responses :
          readFile(e, path, response)
    \/ \E e \in Instances, path \in Paths, response \in Responses :
          listDir(e, path, response)

SpecExplore == InitExplore /\ [][NextExplore]_vars

IdleExplore ==
    /\ explorers = [e \in Instances |-> NewExplorer(<<"o", "/", "r">>)]
    /\ repoCache = [c \in Instances |-> <<>>]
    /\ apiCalls = [e \in Instances |-> <<>>]
    /\ fetched = [e \in Instances |-> <<>>]
    /\ lastExplore = NoExploreCall

\* Explorers are constructed from arbitrary identity strings
InitCreate ==
    /\ IdleExplore
    /\ IdleDocker
    /\ IdleLoop

NextCreate ==
    \E e \in Instances, repoFullName \in RepoNames : createExploreFunctions(e, repoFullName)

SpecCreate == InitCreate /\ [][NextCreate]_vars

\* two Sandbox Manager instances, with and without a source repository
InitDocker ==
    /\ \E n \in {<<>>, <<"o", "/", "r">>} :
          sandboxes = [s \in Instances |->
                          IF s = 1 THEN NewSandbox(<<"o", "/", "r">>) ELSE NewSandbox(n)]
    /\ containers = <<>>
    /\ dirs = {}
    /\ disk = {}
    /\ nextDir = 0
    /\ lastDocker = NoDockerCall
    /\ createdOk = [s \in Instances |-> FALSE]
    /\ cleaning = NoCleanup
    /\ exited = FALSE
    /\ IdleExplore
    /\ IdleLoop

NextDocker ==
    \/ \E s \in Instances, imageName \in ImageNames, outcome \in BuildOutcomes :
          buildImage(s, imageName, outcome)
    \/ \E s \in Instances, imageName \in ImageNames, outcome \in CreateOutcomes :
          createContainer(s, imageName, outcome)
    \/ \E s \in Instances, command \in Commands, outcome \in ExecOutcomes :
          executeCommand(s, command, outcome)
    \/ \E id \in DOMAIN containers : ContainerStops(id)

SpecDocker == InitDocker /\ [][NextDocker]_vars

\* the process-wide TmpDirManager: builds of both instances and cleanup() calls,
\* which the signal handlers of tmpdir.ts:10-13 start at any moment
NextCleanup ==
    \/ \E s \in Instances, imageName \in ImageNames, outcome \in BuildOutcomes :
          buildImage(s, imageName, outcome)
    \/ \E kept \in {{}} \cup {{d} : d \in dirs} : CleanupBegin(kept)
    \/ CleanupEnd

SpecCleanup == InitDocker /\ [][NextCleanup]_vars

(***************************************************************************)
(* Tool registry                                                           *)
(***************************************************************************)
Name(n) == JSString(<<n>>)

\* aiFunctions of reproduceWithGemini (reproducer.ts:116)
DeclaredTools == {"readFile", "listDir", "buildImage", "createContainer",
                  "executeCommand", "report"}

\* properties every plain object inherits from Object.prototype
ObjectPrototype == {"constructor", "toString", "valueOf", "hasOwnProperty"}

\* func[name] on the object built by Object.fromEntries (reproducer.ts:117, find.ts:222)
Lookup(own, name) ==
    IF name \in own THEN "AiFunction"
    ELSE IF name \in ObjectPrototype THEN "inherited"
    ELSE "undefined"

\* runAiFunction up to the call of the implementation (find.ts:221-226):
\* "call" when f.implementation(args) runs a declared implementation,
\* otherwise the error thrown
RunAiFunction(own, name) ==
    LET f == Lookup(own, name)
    IN  IF f = "undefined" THEN Threw(<<"Function '", name, "' not found">>)
        ELSE IF f = "inherited" THEN Threw(<<"f.implementation is not a function">>)
        ELSE Returned(JSString(<<"call">>))

(***************************************************************************)
(* Agent loop: reproduceWithGemini                                         *)
(***************************************************************************)
Call(name, args) == [name |-> name, args |-> args]

PathArgs(path) == JSObject(<<"path", path>>)
CommandArgs(command) == JSObject(<<"command", command>>)
ReportArgs == JSObject(<<"status", "failure", "reason", "r">>)

\* the tool calls the model backend may request
ModelCalls ==
    {Call(Name("listDir"), PathArgs(".")),
     Call(Name("executeCommand"), CommandArgs("nonexistent-command")),
     Call(Name("report"), ReportArgs),
     Call(Name("report"), JSUndefined),
     Call(Name("deleteRepo"), JSUndefined),
     Call(Name("constructor"), JSUndefined),
     Call(JSUndefined, JSUndefined)}

\* what getContent answers during an agent run
LoopResponses == {ListData(<<"x">>), RequestError(404, "Not Found")}
LoopOutcomes == {"started", "createFails", "built", "stepFails", "text", "inspectFails"}
IssueRepos == {<<"o", "/", "r">>, <<"bad">>}

\* the batches of at most n calls
Batches == [n \in 0..MaxToolCalls |-> UNION {[1..k -> ModelCalls] : k \in 0..n}]

\* response.text of a turn: the backend answers with tool calls or with plain text
Texts(calls) == IF Len(calls) = 0 THEN {"", "done"} ELSE {""}

\* !name (reproducer.ts:253)
MissingName(name) == name.t = "undefined" \/ name.v = <<"">>

IsReport(name) == name = Name("report")

\* mutant: the loop runs while i <= maxIterations
LoopContinuesInclusive(k, max) == k <= max

\* mutant: the loop runs two turns past its budget
LoopContinuesPastBudget(k, max) == k < max + 2

\* for (let i = 0; i < maxIterations; i++)  (reproducer.ts:220)
LoopContinues(k, max) == k < max

\* mutant: a turn without tool calls does not end the loop
NeverBreaks(calls) == FALSE

\* functionCalls.length === 0  (reproducer.ts:241)
NoFunctionCalls(calls) == Len(calls) = 0

\* mutant: the catch block forgets to set key
FoldedAsOutput(out) ==
    IF out.threw
    THEN [key |-> "output", result |-> JSString(<<"Error: ">> \o out.value.v)]
    ELSE [key |-> "output", result |-> out.value]

\* catch (error) { key = 'error'; result = `Error: ${error.message}` }  (reproducer.ts:258-262)
Folded(out) ==
    IF out.threw
    THEN [key |-> "error", result |-> JSString(<<"Error: ">> \o out.value.v)]
    ELSE [key |-> "output", result |-> out.value]

\* mutant: only the call turn is pushed
TurnsCallOnly(call, fold) ==
    <<[role |-> "model", part |-> "functionCall", name |-> call.name,
       payload |-> call.args, key |-> ""]>>

\* mutant: the response turn is pushed before the call turn
TurnsResponseFirst(call, fold) ==
    <<[role |-> "user", part |-> "functionResponse", name |-> call.name,
       payload |-> fold.result, key |-> fold.key],
      [role |-> "model", part |-> "functionCall", name |-> call.name,
       payload |-> call.args, key |-> ""]>>

\* the two turns pushed at reproducer.ts:280-283
Turns(call, fold) ==
    <<[role |-> "model", part |-> "functionCall", name |-> call.name,
       payload |-> call.args, key |-> ""],
      [role |-> "user", part |-> "functionResponse", name |-> call.name,
       payload |-> fold.result, key |-> fold.key]>>

\* the "Iteration Tracking" line of the systemInstruction template
\* (reproducer.ts:170-172), cut at its two placeholders
systemInstruction ==
    <<"- **Current iteration**: You have ", "{remainingIterations}",
      " iterations remaining out of ", "{maxIterations}", " total">>

\* String.prototype.replace(pattern, replacement) with a string pattern: the
\* first occurrence only
Replace(str, pattern, replacement) ==
    IF \E k \in DOMAIN str : str[k] = pattern
    THEN LET first == CHOOSE k \in DOMAIN str :
                         /\ str[k] = pattern
                         /\ \A m \in 1..(k - 1) : str[m] # pattern
         IN  [str EXCEPT ![first] = replacement]
    ELSE str

\* mutant: the current turn is counted as remaining
RemainingInclusive(iter, max) == max - iter

\* const remainingIterations = maxIterations - i - 1  (reproducer.ts:221)
RemainingIterations(iter, max) == max - iter - 1

\* currentSystemInstruction, reproducer.ts:224
CurrentSystemInstruction(iter, max) ==
    Replace(Replace(systemInstruction, "{remainingIterations}",
                    ToString(RemainingIterations(iter, max))),
            "{maxIterations}", ToString(max))

Generated(n) ==
    [ev |-> "generate", turn |-> i + 1, n |-> n,
     remaining |-> RemainingIterations(i, maxIterations), total |-> maxIterations,
     systemInstruction |-> CurrentSystemInstruction(i, maxIterations)]

Dispatched(out, impl) ==
    [ev |-> "dispatch", turn |-> i + 1, idx |-> callIdx, threw |-> out.threw,
     message |-> IF out.threw THEN out.value.v ELSE <<>>, impl |-> impl]

Ended(how) == [ev |-> how, turn |-> i, from |-> ""]

\* an exception leaves reproduceWithGemini; `from` is the statement that raised it
Thrown(from) == [ev |-> "throw", turn |-> i, from |-> from]

\* mutant: the catch block leaves repoStructure as it was
RepoStructureSilent(out) ==
    IF out.threw THEN <<>> ELSE <<"Root directory contents:">> \o out.value.v

\* repoStructure after the try/catch of reproducer.ts:175-182; `${error}` is
\* "Error: " followed by the message
RepoStructure(out) ==
    IF out.threw
    THEN <<"Error exploring repository: ", "Error: ">> \o out.value.v
    ELSE <<"Root directory contents:">> \o out.value.v

\* reproducer.ts:114-219: the tools are created, the root is listed, the
\* conversation is seeded
Begin(repo, max, response) ==
    /\ pc = "start"
    /\ maxIterations' = max
    /\ IF InvalidRepoName(repo)
       THEN /\ pc' = "threw"
            /\ trace' = Append(trace, Thrown("createExploreFunctions"))
            /\ UNCHANGED <<explorerVars, dockerVars, i, functionCalls, callIdx, contents,
                           functionCallHistory, agentResponses, finalResult, driver>>
       ELSE LET ex == NewExplorer(repo)
                r == ListDir(<<>>, ex, ".", response)
                repoStructure == RepoStructure(r.out)
            IN  /\ explorers' = [explorers EXCEPT ![1] = ex]
                /\ repoCache' = [repoCache EXCEPT ![CacheOf(1)] = r.cache]
                /\ apiCalls' = [apiCalls EXCEPT ![1] =
                      [k \in 1..Len(r.requests) |->
                          [op |-> "listDir", path |-> ".", request |-> r.requests[k],
                           ok |-> ~r.out.threw]]]
                /\ fetched' = [fetched EXCEPT ![1] =
                      IF r.out.threw THEN <<>>
                      ELSE SetProperty(<<>>, <<"dir", repo, ".">>, r.out.value)]
                /\ lastExplore' = [inst |-> 1, op |-> "listDir", path |-> ".",
                                   response |-> response, out |-> r.out,
                                   requests |-> r.requests, n |-> 1, prior |-> JSUndefined]
                /\ sandboxes' = [sandboxes EXCEPT ![1] = NewSandbox(repo)]
                /\ contents' = <<[role |-> "user", part |-> "text", name |-> JSUndefined,
                                  payload |-> JSString(repoStructure), key |-> ""]>>
                /\ functionCallHistory' = <<>>
                /\ agentResponses' = <<>>
                /\ finalResult' = JSNull
                /\ i' = 0
                /\ pc' = "generate"
                /\ UNCHANGED <<containers, dirs, disk, nextDir, lastDocker, createdOk,
                               cleaning, exited, functionCalls, callIdx, trace, driver>>

\* reproducer.ts:287-289
ReturnNull ==
    /\ pc' = "returned"
    /\ trace' = Append(trace, Ended("warn"))

\* one model turn, reproducer.ts:220-244
Generate(text, calls) ==
    /\ pc = "generate"
    /\ LoopContinues(i, maxIterations)
    /\ agentResponses' = IF text # "" THEN Append(agentResponses, <<i + 1, text>>)
                         ELSE agentResponses
    /\ functionCalls' = calls
    /\ IF NoFunctionCalls(calls)
       THEN /\ pc' = "returned"
            /\ trace' = trace \o <<Generated(Len(calls)), Ended("warn")>>
            /\ UNCHANGED <<i, callIdx>>
       ELSE /\ trace' = Append(trace, Generated(Len(calls)))
            /\ callIdx' = 1
            \* for (const call of functionCalls): an empty batch has no body to run
            /\ IF Len(calls) = 0
               THEN pc' = "generate" /\ i' = i + 1
               ELSE pc' = "dispatch" /\ i' = i
    /\ UNCHANGED <<explorerVars, dockerVars, maxIterations, contents,
                   functionCallHistory, finalResult, driver>>

\* genAI.models.generateContent rejects: nothing catches it
GenerateFails ==
    /\ pc = "generate"
    /\ LoopContinues(i, maxIterations)
    /\ pc' = "threw"
    /\ trace' = Append(trace, Thrown("generateContent"))
    /\ UNCHANGED <<explorerVars, dockerVars, maxIterations, i, functionCalls, callIdx,
                   contents, functionCallHistory, agentResponses, finalResult, driver>>

\* the loop condition fails: reproducer.ts:220, 287-289
Exhausted ==
    /\ pc = "generate"
    /\ ~LoopContinues(i, maxIterations)
    /\ ReturnNull
    /\ UNCHANGED <<explorerVars, dockerVars, maxIterations, i, functionCalls, callIdx,
                   contents, functionCallHistory, agentResponses, finalResult, driver>>

\* reproducer.ts:263-284 for one call whose dispatch ended with `out`
AfterDispatch(call, out, impl) ==
    LET fold == Folded(out)
    IN  /\ functionCallHistory' = Append(functionCallHistory,
              [name |-> IF MissingName(call.name) THEN Name("unknown") ELSE call.name,
               args |-> call.args, result |-> fold.result, key |-> fold.key])
        /\ IF IsReport(call.name)
           THEN /\ finalResult' = call.args
                /\ IF call.args.t \in {"undefined", "null"}
                   THEN /\ pc' = "threw"
                        /\ trace' = trace \o <<Dispatched(out, impl), Thrown("finalResult.status")>>
                   ELSE /\ pc' = "returned"
                        /\ trace' = trace \o <<Dispatched(out, impl), Ended("return")>>
                /\ UNCHANGED <<contents, callIdx, i>>
           ELSE /\ contents' = contents \o Turns(call, fold)
                /\ trace' = Append(trace, Dispatched(out, impl))
                /\ finalResult' = finalResult
                /\ IF callIdx < Len(functionCalls)
                   THEN /\ callIdx' = callIdx + 1
                        /\ pc' = "dispatch"
                        /\ i' = i
                   ELSE /\ callIdx' = callIdx
                        /\ pc' = "generate"
                        /\ i' = i + 1
        /\ UNCHANGED <<maxIterations, functionCalls, agentResponses, driver>>

\* mutant: the batch is worked off from its end
CurrentCallReversed == functionCalls[Len(functionCalls) + 1 - callIdx]

\* the call the for loop of reproducer.ts:246 has reached
CurrentCall == functionCalls[callIdx]

ToolOf(call) == IF MissingName(call.name) THEN "" ELSE call.name.v[1]

\* the call is dispatched to readFile or listDir of this run's Explorer
DispatchExplore(response) ==
    /\ pc = "dispatch"
    /\ ToolOf(CurrentCall) \in {"readFile", "listDir"}
    /\ ~RunAiFunction(DeclaredTools, ToolOf(CurrentCall)).threw
    /\ IF CurrentCall.args.t = "undefined"
       THEN /\ AfterDispatch(CurrentCall,
                  Threw(<<"Cannot destructure property 'path' of 'args' as it is undefined.">>),
                  TRUE)
            /\ UNCHANGED explorerVars
       ELSE /\ ExploreEffects(1, ToolOf(CurrentCall), CurrentCall.args.v[2], response)
            /\ AfterDispatch(CurrentCall,
                  ExploreImpl(1, ToolOf(CurrentCall), CurrentCall.args.v[2], response).out,
                  TRUE)
            /\ UNCHANGED explorers
    /\ UNCHANGED dockerVars

\* the call is dispatched to a tool of this run's Sandbox Manager
DispatchDocker(outcome) ==
    /\ pc = "dispatch"
    /\ ToolOf(CurrentCall) \in {"buildImage", "createContainer", "executeCommand"}
    /\ ~RunAiFunction(DeclaredTools, ToolOf(CurrentCall)).threw
    /\ IF CurrentCall.args.t = "undefined"
       THEN /\ outcome = "text"
            /\ AfterDispatch(CurrentCall,
                  Threw(<<"Cannot destructure property of 'args' as it is undefined.">>), TRUE)
            /\ UNCHANGED dockerVars
       ELSE CASE ToolOf(CurrentCall) = "buildImage" ->
                    /\ outcome \in BuildOutcomes
                    /\ BuildImageEffects(1, CurrentCall.args.v[2], outcome)
                    /\ AfterDispatch(CurrentCall,
                          BuildImage(sandboxes[1], CurrentCall.args.v[2], outcome, nextDir).out,
                          TRUE)
              [] ToolOf(CurrentCall) = "createContainer" ->
                    /\ outcome \in CreateOutcomes
                    /\ CreateContainerEffects(1, CurrentCall.args.v[2], outcome)
                    /\ AfterDispatch(CurrentCall,
                          CreateContainer(sandboxes[1], containers, CurrentCall.args.v[2],
                                          outcome).out, TRUE)
              [] ToolOf(CurrentCall) = "executeCommand" ->
                    /\ outcome \in ExecOutcomes
                    /\ NoActiveContainer(sandboxes[1]) => outcome = "text"
                    /\ ExecuteCommandEffects(1, CurrentCall.args.v[2], outcome)
                    /\ AfterDispatch(CurrentCall,
                          ExecuteCommand(sandboxes[1], containers, CurrentCall.args.v[2],
                                         outcome).out, TRUE)
    /\ UNCHANGED explorerVars

\* the call names `report`, an undeclared tool, or nothing
DispatchOther ==
    /\ pc = "dispatch"
    /\ ToolOf(CurrentCall) \notin
          {"readFile", "listDir", "buildImage", "createContainer", "executeCommand"}
    /\ LET run == RunAiFunction(DeclaredTools, ToolOf(CurrentCall))
       IN  IF MissingName(CurrentCall.name)
           THEN AfterDispatch(CurrentCall, Threw(<<"Function call missing name">>), FALSE)
           ELSE IF run.threw
           THEN AfterDispatch(CurrentCall, run, FALSE)
           ELSE AfterDispatch(CurrentCall, Returned(JSUndefined), TRUE)
    /\ UNCHANGED <<explorerVars, dockerVars>>

Init ==
    /\ IdleExplore
    /\ IdleDocker
    /\ pc = "start"
    /\ maxIterations = 0
    /\ i = 0
    /\ functionCalls = <<>>
    /\ callIdx = 0
    /\ contents = <<>>
    /\ functionCallHistory = <<>>
    /\ agentResponses = <<>>
    /\ finalResult = JSNull
    /\ trace = <<>>
    /\ driver = NoDriver

Next ==
    \/ \E repo \in IssueRepos, max \in 0..MaxN, response \in LoopResponses :
          Begin(repo, max, response)
    \/ \E calls \in Batches[MaxToolCalls - Len(functionCallHistory)] :
          \E text \in Texts(calls) : Generate(text, calls)
    \/ GenerateFails
    \/ Exhausted
    \/ \E response \in LoopResponses : DispatchExplore(response)
    \/ \E outcome \in LoopOutcomes : DispatchDocker(outcome)
    \/ DispatchOther

Spec == Init /\ [][Next]_vars

(***************************************************************************)
(* Process events during a run: tmpdir.ts:9-14                             *)
(***************************************************************************)
Signals == {"SIGINT", "SIGTERM", "uncaughtException"}

Signalled(sig) == [ev |-> "signal", turn |-> i, from |-> sig]

SignalEvents == SelectSeq(trace, LAMBDA ev : ev.ev = "signal")

\* a listener of tmpdir.ts:11-13 runs: it calls this.cleanup(), whose removals
\* start, and returns; the listener replaces the default action of the signal,
\* and nothing in it ends the process
Signal(sig) ==
    /\ ~exited
    /\ pc \in {"generate", "dispatch"}
    /\ Len(SignalEvents) < MaxSignals
    /\ ~cleaning.pending
    /\ disk' = disk \ dirs
    /\ cleaning' = [pending |-> TRUE, rejected |-> FALSE]
    /\ trace' = Append(trace, Signalled(sig))
    /\ UNCHANGED <<sandboxes, containers, dirs, nextDir, lastDocker, createdOk, exited,
                   explorerVars, pc, maxIterations, i, functionCalls, callIdx, contents,
                   functionCallHistory, agentResponses, finalResult, driver>>

\* the run is over and nothing is pending: 'exit' is emitted, its listener
\* (tmpdir.ts:10) calls this.cleanup() and returns, and the process is gone
\* with the removals cleanup() has started in whatever state they are
ProcessExit(removed) ==
    /\ ~exited
    /\ pc \in {"returned", "threw"}
    /\ ~cleaning.pending
    /\ removed \subseteq dirs
    /\ disk' = disk \ removed
    /\ exited' = TRUE
    /\ UNCHANGED <<sandboxes, containers, dirs, nextDir, lastDocker, createdOk, cleaning,
                   explorerVars, loopVars>>

BuildArgs(imageName) == JSObject(<<"imageName", imageName>>)

\* the tool calls of the runs that receive signals
SignalBatches ==
    {<<>>, <<Call(Name("buildImage"), BuildArgs("img"))>>, <<Call(Name("report"), ReportArgs)>>}

NextSignal ==
    \/ \E max \in 1..MaxN : Begin(<<"o", "/", "r">>, max, ListData(<<"x">>))
    \/ \E calls \in SignalBatches : Generate("", calls)
    \/ GenerateFails
    \/ Exhausted
    \/ \E outcome \in {"built", "stepFails"} : DispatchDocker(outcome)
    \/ DispatchOther
    \/ \E sig \in Signals : Signal(sig)
    \/ CleanupEnd
    \/ \E removed \in {{}, dirs} : ProcessExit(removed)

SpecSignal == Init /\ [][NextSignal]_vars

\* the start of a run against every answer of the repository backend
\* a report payload with a status outside the enum and no reason
MalformedReportArgs == JSObject(<<"status", "maybe">>)

StartBatches ==
    {<<>>, <<Call(Name("report"), ReportArgs)>>, <<Call(Name("deleteRepo"), JSUndefined)>>,
     <<Call(Name("report"), MalformedReportArgs)>>}

NextStart ==
    \/ \E repo \in IssueRepos, max \in 0..MaxN, response \in Responses :
          Begin(repo, max, response)
    \/ \E calls \in StartBatches : \E text \in Texts(calls) : Generate(text, calls)
    \/ GenerateFails
    \/ Exhausted
    \/ DispatchOther

SpecStart == Init /\ [][NextStart]_vars

\* runs whose model asks for the repository root under both of its names, as a
\* directory and as a file
AliasCalls ==
    {Call(Name("listDir"), PathArgs(".")), Call(Name("listDir"), PathArgs("")),
     Call(Name("readFile"), PathArgs("."))}

AliasBatches(n) == UNION {[1..k -> AliasCalls] : k \in 0..n}

NextAliases ==
    \/ \E max \in 1..MaxN, response \in LoopResponses :
          Begin(<<"o", "/", "r">>, max, response)
    \/ \E calls \in AliasBatches(MaxToolCalls - Len(functionCallHistory)) :
          Generate("", calls)
    \/ Exhausted
    \/ \E response \in LoopResponses : DispatchExplore(response)

SpecAliases == Init /\ [][NextAliases]_vars

(***************************************************************************)
(* Agent loop: analyzeIssueWithGemini                                      *)
(***************************************************************************)
\* const maxIterations = 10  (logger.ts:269)
AnalyzeMaxIterations == 10

\* aiFunctions of analyzeIssueWithGemini (logger.ts:175)
AnalyzeTools == {"readFile", "listDir", "analyzeIssue"}

\* detailedIssue.url as its tokens
IssueUrls ==
    {<<"https:", "/", "/", "github.com", "/", "o", "/", "r", "/", "issues", "/", "1">>,
     <<"https:", "/", "/", "github.com", "/", "o", "/", "issues">>}

\* url.match(/github\.com\/([^/]+)\/([^/]+)\/issues/): `${owner}/${repo}` of the
\* first match, <<>> when there is none  (logger.ts:164-169)
RepoMatch(url) ==
    LET Matches(k) ==
            /\ k + 6 <= Len(url)
            /\ url[k] = "github.com" /\ url[k + 1] = "/" /\ url[k + 2] # "/"
            /\ url[k + 3] = "/" /\ url[k + 4] # "/" /\ url[k + 5] = "/"
            /\ url[k + 6] = "issues"
    IN  IF \E k \in DOMAIN url : Matches(k)
        THEN LET k == CHOOSE k \in DOMAIN url :
                         Matches(k) /\ \A m \in 1..(k - 1) : ~Matches(m)
             IN  <<url[k + 2], "/", url[k + 4]>>
        ELSE <<>>

AnalysisArgs ==
    JSObject(<<"isFlakyTestIssue", "true", "confidence", "90", "reasoning", "r">>)

\* the tool calls the model backend may request of the classification agent
AnalyzeCalls ==
    {Call(Name("listDir"), PathArgs(".")),
     Call(Name("analyzeIssue"), AnalysisArgs),
     Call(Name("analyzeIssue"), JSUndefined)}

\* a turn brings no call, one call, or a listing followed by one more call
AnalyzeBatches ==
    {<<>>} \cup {<<c>> : c \in AnalyzeCalls}
           \cup {<<Call(Name("listDir"), PathArgs(".")), c>> : c \in AnalyzeCalls}

\* args[key] of a call's arguments; a missing property is undefined
ArgOf(args, key) ==
    IF \E k \in DOMAIN args.v : k % 2 = 1 /\ args.v[k] = key
    THEN args.v[(CHOOSE k \in DOMAIN args.v : k % 2 = 1 /\ args.v[k] = key) + 1]
    ELSE "undefined"

\* the object returned at logger.ts:304-310
AnalysisOf(args) ==
    JSObject(<<"isFlakyTestIssue", ArgOf(args, "isFlakyTestIssue"),
               "confidence", ArgOf(args, "confidence"),
               "summary", ArgOf(args, "summary"),
               "reasoning", ArgOf(args, "reasoning"),
               "environment", ArgOf(args, "environment")>>)

\* logger.ts:337 is reached, after the break of line 283 or after the last iteration
NotCalled(how) == [ev |-> "throw", turn |-> i, from |-> how]

\* logger.ts:161-266: the repository is taken from the URL, the tools are
\* created, the conversation is seeded
AnalyzeBegin(url) ==
    /\ pc = "start"
    /\ maxIterations' = AnalyzeMaxIterations
    /\ IF RepoMatch(url) = <<>> \/ InvalidRepoName(RepoMatch(url))
       THEN /\ pc' = "threw"
            /\ trace' = Append(trace, Thrown(IF RepoMatch(url) = <<>> THEN "repoMatch"
                                             ELSE "createExploreFunctions"))
            /\ UNCHANGED <<explorerVars, i, functionCalls, callIdx, contents, finalResult>>
       ELSE /\ explorers' = [explorers EXCEPT ![1] = NewExplorer(RepoMatch(url))]
            /\ repoCache' = [repoCache EXCEPT ![CacheOf(1)] = <<>>]
            /\ apiCalls' = [apiCalls EXCEPT ![1] = <<>>]
            /\ fetched' = [fetched EXCEPT ![1] = <<>>]
            /\ contents' = <<[role |-> "user", part |-> "text", name |-> JSUndefined,
                              payload |-> JSString(<<"## Issue Content Analysis">>),
                              key |-> ""]>>
            /\ finalResult' = JSNull
            /\ i' = 0
            /\ pc' = "generate"
            /\ UNCHANGED <<lastExplore, functionCalls, callIdx, trace>>
    /\ UNCHANGED <<dockerVars, functionCallHistory, agentResponses, driver>>

\* one model turn, logger.ts:270-284; the break leads to the throw of line 337
AnalyzeGenerate(calls) ==
    /\ pc = "generate"
    /\ LoopContinues(i, maxIterations)
    /\ functionCalls' = calls
    /\ IF NoFunctionCalls(calls)
       THEN /\ pc' = "threw"
            /\ trace' = Append(trace, NotCalled("break"))
            /\ UNCHANGED <<i, callIdx>>
       ELSE /\ callIdx' = 1
            /\ trace' = trace
            /\ IF Len(calls) = 0
               THEN pc' = "generate" /\ i' = i + 1
               ELSE pc' = "dispatch" /\ i' = i
    /\ UNCHANGED <<explorerVars, dockerVars, maxIterations, contents,
                   functionCallHistory, agentResponses, finalResult, driver>>

\* the loop condition fails: logger.ts:270, 337
AnalyzeExhausted ==
    /\ pc = "generate"
    /\ ~LoopContinues(i, maxIterations)
    /\ pc' = "threw"
    /\ trace' = Append(trace, NotCalled("exhausted"))
    /\ UNCHANGED <<explorerVars, dockerVars, maxIterations, i, functionCalls, callIdx,
                   contents, functionCallHistory, agentResponses, finalResult, driver>>

\* what the try block of logger.ts:316-322 ends with for `call`
AnalyzeRun(call, response) ==
    IF MissingName(call.name) THEN Threw(<<"Function call missing name">>)
    ELSE IF RunAiFunction(AnalyzeTools, ToolOf(call)).threw
    THEN RunAiFunction(AnalyzeTools, ToolOf(call))
    ELSE IF call.args.t = "undefined"
    THEN Threw(<<"Cannot destructure property 'path' of 'args' as it is undefined.">>)
    ELSE ExploreImpl(1, ToolOf(call), call.args.v[2], response).out

\* the body of the for loop of logger.ts:287-333 for the current call
AnalyzeCall(response) ==
    /\ pc = "dispatch"
    /\ IF CurrentCall.name = Name("analyzeIssue")
       THEN /\ IF CurrentCall.args.t \in {"undefined", "null"}
               THEN /\ pc' = "threw"
                    /\ trace' = Append(trace, Thrown("resultArgs.isFlakyTestIssue"))
                    /\ finalResult' = finalResult
               ELSE /\ pc' = "returned"
                    /\ trace' = Append(trace, Ended("return"))
                    /\ finalResult' = AnalysisOf(CurrentCall.args)
            /\ UNCHANGED <<explorerVars, contents, callIdx, i>>
       ELSE LET out == AnalyzeRun(CurrentCall, response)
                result == IF out.threw THEN JSString(<<"Error: ">> \o out.value.v)
                          ELSE out.value
                ran == /\ ~MissingName(CurrentCall.name)
                       /\ ~RunAiFunction(AnalyzeTools, ToolOf(CurrentCall)).threw
                       /\ CurrentCall.args.t # "undefined"
            IN  /\ IF ran
                   THEN /\ ExploreEffects(1, ToolOf(CurrentCall), CurrentCall.args.v[2],
                                          response)
                        /\ UNCHANGED explorers
                   ELSE UNCHANGED explorerVars
                /\ contents' = contents \o Turns(CurrentCall,
                                                 [key |-> "output", result |-> result])
                /\ UNCHANGED <<trace, finalResult>>
                /\ IF callIdx < Len(functionCalls)
                   THEN /\ callIdx' = callIdx + 1
                        /\ pc' = "dispatch"
                        /\ i' = i
                   ELSE /\ callIdx' = callIdx
                        /\ pc' = "generate"
                        /\ i' = i + 1
    /\ UNCHANGED <<dockerVars, maxIterations, functionCalls, functionCallHistory,
                   agentResponses, driver>>

NextAnalyze ==
    \/ \E url \in IssueUrls : AnalyzeBegin(url)
    \/ \E calls \in AnalyzeBatches : AnalyzeGenerate(calls)
    \/ GenerateFails
    \/ AnalyzeExhausted
    \/ \E response \in LoopResponses : AnalyzeCall(response)

SpecAnalyze == Init /\ [][NextAnalyze]_vars

(***************************************************************************)
(* Reproduce driver: runReproducerAgent                                    *)
(***************************************************************************)
\* the FilteredResults of the input; `valid` is FilteredResultSchema.safeParse(result).success
DriverIssues ==
    {[title |-> "t1", repo |-> <<"o", "/", "r">>, isFlakyTestIssue |-> TRUE, valid |-> TRUE],
     [title |-> "t2", repo |-> <<"o", "/", "r">>, isFlakyTestIssue |-> FALSE, valid |-> TRUE],
     [title |-> "t3", repo |-> <<"bad">>, isFlakyTestIssue |-> TRUE, valid |-> TRUE],
     [title |-> "t4", repo |-> <<"o", "/", "r">>, isFlakyTestIssue |-> FALSE, valid |-> FALSE]}

\* JSON.parse(rawData): an array of results or a single one
ParsedData ==
    {[isArray |-> TRUE, items |-> l] :
        l \in UNION {[1..n -> DriverIssues] : n \in 0..MaxIssues}}
    \cup {[isArray |-> FALSE, items |-> <<r>>] : r \in DriverIssues}

DriverBudgets == {0, 1}

\* what the model backend answers during the runs the driver starts
DriverBatches ==
    {<<>>, <<Call(Name("report"), ReportArgs)>>, <<Call(Name("deleteRepo"), JSUndefined)>>}

\* mutant: --force is ignored
SkipsIgnoringForce(result, force) == ~result.isFlakyTestIssue

\* !result.isFlakyTestIssue && !force  (reproducer.ts:69)
Skips(result, force) == ~result.isFlakyTestIssue /\ ~force

\* the driver reached issue k and skipped it / called reproduceWithGemini for it
Skipped(k) == [ev |-> "skip", turn |-> k, from |-> ""]
Processing(k) == [ev |-> "process", turn |-> k, from |-> ""]

\* mutant: only the first result is validated
FirstInvalidOfHead(items) == IF items # <<>> /\ ~items[1].valid THEN 1 ELSE 0

\* the loop of reproducer.ts:57-62: the index of the result whose safeParse
\* fails first, 0 if every result passes
FirstInvalid(items) ==
    IF \E k \in DOMAIN items : ~items[k].valid
    THEN CHOOSE k \in DOMAIN items :
            ~items[k].valid /\ \A m \in 1..(k - 1) : items[m].valid
    ELSE 0

\* validation.error.message names what is wrong with the result
InvalidFilteredResult(result) == <<"Invalid FilteredResult: ", result.title>>

\* reproducer.ts:32-62: the input is parsed and every result validated
runReproducerAgent(parsedData, max, force) ==
    /\ driver.pc = "start"
    /\ driver' =
          IF FirstInvalid(parsedData.items) # 0
          THEN [driver EXCEPT
                   !.pc = "threw",
                   !.filteredResults = parsedData.items,
                   !.error = InvalidFilteredResult(
                                parsedData.items[FirstInvalid(parsedData.items)])]
          ELSE [pc |-> "loop", filteredResults |-> parsedData.items, force |-> force,
                maxIterations |-> max, i |-> 0, finalOutput |-> <<>>, written |-> <<>>,
                error |-> <<>>]
    /\ UNCHANGED <<explorerVars, dockerVars, pc, maxIterations, i, functionCalls, callIdx,
                   contents, functionCallHistory, agentResponses, finalResult, trace>>

\* mutant: the driver takes the first issue again on every pass of its loop
CurrentIssueFirst == driver.filteredResults[1]

\* filteredResults[i] of the loop of reproducer.ts:65, results[i] of logger.ts:348
CurrentIssue == driver.filteredResults[driver.i + 1]

\* reproducer.ts:65-72: the issue is skipped
DriverSkip ==
    /\ driver.pc = "loop"
    /\ driver.i < Len(driver.filteredResults)
    /\ Skips(CurrentIssue, driver.force)
    /\ driver' = [driver EXCEPT !.i = @ + 1]
    /\ trace' = Append(trace, Skipped(driver.i + 1))
    /\ UNCHANGED <<explorerVars, dockerVars, pc, maxIterations, i, functionCalls, callIdx,
                   contents, functionCallHistory, agentResponses, finalResult>>

\* reproducer.ts:65-78: reproduceWithGemini is called for the issue
DriverRun ==
    /\ driver.pc = "loop"
    /\ driver.i < Len(driver.filteredResults)
    /\ ~Skips(CurrentIssue, driver.force)
    /\ driver' = [driver EXCEPT !.pc = "running"]
    /\ pc' = "start"
    /\ trace' = Append(trace, Processing(driver.i + 1))
    /\ UNCHANGED <<explorerVars, dockerVars, maxIterations, i, functionCalls, callIdx,
                   contents, functionCallHistory, agentResponses, finalResult>>

\* reproducer.ts:78-88: the run returned, its record is pushed, the locals of
\* reproduceWithGemini are gone
DriverCollect ==
    /\ driver.pc = "running"
    /\ pc = "returned"
    /\ driver' = [driver EXCEPT
          !.pc = "loop",
          !.i = @ + 1,
          !.finalOutput = Append(@,
              [issue |-> CurrentIssue, maxIterations |-> driver.maxIterations,
               reproductionResult |-> finalResult,
               functionCallHistory |-> functionCallHistory,
               agentResponses |-> agentResponses])]
    /\ pc' = "idle"
    /\ maxIterations' = 0
    /\ i' = 0
    /\ functionCalls' = <<>>
    /\ callIdx' = 0
    /\ contents' = <<>>
    /\ functionCallHistory' = <<>>
    /\ agentResponses' = <<>>
    /\ finalResult' = JSNull
    /\ UNCHANGED <<explorerVars, dockerVars, trace>>

\* mutant: a catch around the loop writes the records collected so far
DriverRejectsWritingPartial ==
    /\ driver.pc = "running"
    /\ pc = "threw"
    /\ driver' = [driver EXCEPT !.pc = "threw", !.error = <<"reproduceWithGemini">>,
                                !.written = driver.finalOutput]
    /\ pc' = "idle"
    /\ UNCHANGED <<explorerVars, dockerVars, maxIterations, i, functionCalls, callIdx,
                   contents, functionCallHistory, agentResponses, finalResult, trace>>

\* the await of reproducer.ts:78 rejects: nothing catches it, nothing is written
DriverRejects ==
    /\ driver.pc = "running"
    /\ pc = "threw"
    /\ driver' = [driver EXCEPT !.pc = "threw", !.error = <<"reproduceWithGemini">>]
    /\ pc' = "idle"
    /\ UNCHANGED <<explorerVars, dockerVars, maxIterations, i, functionCalls, callIdx,
                   contents, functionCallHistory, agentResponses, finalResult, trace>>

\* reproducer.ts:90-101: finalOutput is written
DriverWrite ==
    /\ driver.pc = "loop"
    /\ driver.i >= Len(driver.filteredResults)
    /\ driver' = [driver EXCEPT !.pc = "written", !.written = driver.finalOutput]
    /\ UNCHANGED <<explorerVars, dockerVars, pc, maxIterations, i, functionCalls, callIdx,
                   contents, functionCallHistory, agentResponses, finalResult, trace>>

InitDriver ==
    /\ IdleExplore
    /\ IdleDocker
    /\ pc = "idle"
    /\ maxIterations = 0
    /\ i = 0
    /\ functionCalls = <<>>
    /\ callIdx = 0
    /\ contents = <<>>
    /\ functionCallHistory = <<>>
    /\ agentResponses = <<>>
    /\ finalResult = JSNull
    /\ trace = <<>>
    /\ driver = [NoDriver EXCEPT !.pc = "start"]

NextDriver ==
    \/ \E parsedData \in ParsedData, max \in DriverBudgets, force \in BOOLEAN :
          runReproducerAgent(parsedData, max, force)
    \/ DriverSkip
    \/ DriverRun
    \/ /\ driver.pc = "running"
       /\ Begin(CurrentIssue.repo, driver.maxIterations, ListData(<<"x">>))
    \/ \E calls \in DriverBatches : Generate("", calls)
    \/ GenerateFails
    \/ Exhausted
    \/ DispatchOther
    \/ DriverCollect
    \/ DriverRejects
    \/ DriverWrite

SpecDriver == InitDriver /\ [][NextDriver]_vars

(***************************************************************************)
(* Filter driver: filterFlakyTestIssues                                    *)
(***************************************************************************)
IssueUrl(owner, repo, number) ==
    <<"https:", "/", "/", "github.com", "/", owner, "/", repo, "/", "issues", "/", number>>

\* the FindResults of the input; `detailed` is whether fetchDetailedIssue
\* (logger.ts:73) gets the issue from the backend
FindResults ==
    {[title |-> "f1", url |-> IssueUrl("o", "r", "1"), detailed |-> TRUE],
     [title |-> "f2", url |-> IssueUrl("p", "r", "2"), detailed |-> TRUE],
     [title |-> "f3", url |-> IssueUrl("o", "r", "3"), detailed |-> FALSE]}

FilterInputs == UNION {[1..n -> FindResults] : n \in 0..MaxIssues}

\* what the model backend answers during the runs the filter driver starts
FilterBatches ==
    {<<>>, <<Call(Name("listDir"), PathArgs("a"))>>,
     <<Call(Name("analyzeIssue"), AnalysisArgs)>>}

\* logger.ts:341-345; the driver record holds `results` as filteredResults and
\* the array the function builds as finalOutput
filterFlakyTestIssues(results) ==
    /\ driver.pc = "filter"
    /\ driver' = [pc |-> "filterLoop", filteredResults |-> results, force |-> FALSE,
                  maxIterations |-> AnalyzeMaxIterations, i |-> 0, finalOutput |-> <<>>,
                  written |-> <<>>, error |-> <<>>]
    /\ UNCHANGED <<explorerVars, dockerVars, pc, maxIterations, i, functionCalls, callIdx,
                   contents, functionCallHistory, agentResponses, finalResult, trace>>

\* logger.ts:347-359: fetchDetailedIssue returned null, the issue is skipped
FilterSkip ==
    /\ driver.pc = "filterLoop"
    /\ driver.i < Len(driver.filteredResults)
    /\ ~CurrentIssue.detailed
    /\ driver' = [driver EXCEPT !.i = @ + 1]
    /\ trace' = Append(trace, Skipped(driver.i + 1))
    /\ UNCHANGED <<explorerVars, dockerVars, pc, maxIterations, i, functionCalls, callIdx,
                   contents, functionCallHistory, agentResponses, finalResult>>

\* logger.ts:347-364: analyzeIssueWithGemini is called for the issue
FilterRun ==
    /\ driver.pc = "filterLoop"
    /\ driver.i < Len(driver.filteredResults)
    /\ CurrentIssue.detailed
    /\ driver' = [driver EXCEPT !.pc = "analyzing"]
    /\ pc' = "start"
    /\ trace' = Append(trace, Processing(driver.i + 1))
    /\ UNCHANGED <<explorerVars, dockerVars, maxIterations, i, functionCalls, callIdx,
                   contents, functionCallHistory, agentResponses, finalResult>>

\* logger.ts:364-385: the analysis returned, its record is pushed, the locals
\* of analyzeIssueWithGemini are gone
FilterCollect ==
    /\ driver.pc = "analyzing"
    /\ pc = "returned"
    /\ driver' = [driver EXCEPT
          !.pc = "filterLoop",
          !.i = @ + 1,
          !.finalOutput = Append(@, [issue |-> CurrentIssue, analysis |-> finalResult])]
    /\ pc' = "idle"
    /\ maxIterations' = 0
    /\ i' = 0
    /\ functionCalls' = <<>>
    /\ callIdx' = 0
    /\ contents' = <<>>
    /\ finalResult' = JSNull
    /\ UNCHANGED <<explorerVars, dockerVars, functionCallHistory, agentResponses, trace>>

\* the await of logger.ts:364 rejects: filterFlakyTestIssues rejects with it
FilterRejects ==
    /\ driver.pc = "analyzing"
    /\ pc = "threw"
    /\ driver' = [driver EXCEPT !.pc = "threw", !.error = <<"analyzeIssueWithGemini">>]
    /\ pc' = "idle"
    /\ UNCHANGED <<explorerVars, dockerVars, maxIterations, i, functionCalls, callIdx,
                   contents, functionCallHistory, agentResponses, finalResult, trace>>

\* logger.ts:388-394: the array is returned
FilterReturn ==
    /\ driver.pc = "filterLoop"
    /\ driver.i >= Len(driver.filteredResults)
    /\ driver' = [driver EXCEPT !.pc = "filtered", !.written = driver.finalOutput]
    /\ UNCHANGED <<explorerVars, dockerVars, pc, maxIterations, i, functionCalls, callIdx,
                   contents, functionCallHistory, agentResponses, finalResult, trace>>

(***************************************************************************)
(* Both drivers, with runs that use the Explorer and the Sandbox Manager   *)
(***************************************************************************)
CreateArgs(imageName) == JSObject(<<"imageName", imageName>>)

IssueBatches ==
    {<<>>, <<Call(Name("listDir"), PathArgs("a"))>>,
     <<Call(Name("createContainer"), CreateArgs("img"))>>,
     <<Call(Name("report"), ReportArgs)>>}

InitDrivers ==
    /\ IdleExplore
    /\ IdleDocker
    /\ pc = "idle"
    /\ maxIterations = 0
    /\ i = 0
    /\ functionCalls = <<>>
    /\ callIdx = 0
    /\ contents = <<>>
    /\ functionCallHistory = <<>>
    /\ agentResponses = <<>>
    /\ finalResult = JSNull
    /\ trace = <<>>
    /\ driver \in {[NoDriver EXCEPT !.pc = "start"], [NoDriver EXCEPT !.pc = "filter"]}

\* a run is in progress under runReproducerAgent / filterFlakyTestIssues
Reproducing == driver.pc = "running"
Analyzing == driver.pc = "analyzing"

NextReproduce ==
    \/ \E parsedData \in ParsedData, max \in DriverBudgets, force \in BOOLEAN :
          runReproducerAgent(parsedData, max, force)
    \/ DriverSkip
    \/ DriverRun
    \/ Reproducing /\ Begin(CurrentIssue.repo, driver.maxIterations, ListData(<<"x">>))
    \/ Reproducing /\ \E calls \in IssueBatches : Generate("", calls)
    \/ Reproducing /\ GenerateFails
    \/ Reproducing /\ Exhausted
    \/ Reproducing /\ DispatchExplore(ListData(<<"y">>))
    \/ Reproducing /\ DispatchDocker("started")
    \/ Reproducing /\ DispatchOther
    \/ DriverCollect
    \/ DriverRejects
    \/ DriverWrite

NextFilter ==
    \/ \E results \in FilterInputs : filterFlakyTestIssues(results)
    \/ FilterSkip
    \/ FilterRun
    \/ Analyzing /\ AnalyzeBegin(CurrentIssue.url)
    \/ Analyzing /\ \E calls \in FilterBatches : AnalyzeGenerate(calls)
    \/ Analyzing /\ GenerateFails
    \/ Analyzing /\ AnalyzeExhausted
    \/ Analyzing /\ AnalyzeCall(ListData(<<"y">>))
    \/ FilterCollect
    \/ FilterRejects
    \/ FilterReturn

NextDrivers == NextReproduce \/ NextFilter

SpecDrivers == InitDrivers /\ [][NextDrivers]_vars

\* every awaited model invocation and tool dispatch settles, and the driver's
\* synchronous steps run: no step that can be taken is put off forever
SpecTerminates == SpecDrivers /\ WF_vars(NextDrivers)

(***************************************************************************)
(* Properties                                                              *)
(***************************************************************************)
GenerateEvents == SelectSeq(trace, LAMBDA ev : ev.ev = "generate")
DispatchEvents == SelectSeq(trace, LAMBDA ev : ev.ev = "dispatch")
Terminal == pc \in {"returned", "threw"}

\* every turn so far brought at least one tool call, and none named `report`
AlwaysCallsNeverReports ==
    /\ \A k \in DOMAIN GenerateEvents : GenerateEvents[k].n > 0
    /\ \A k \in DOMAIN functionCallHistory : ~IsReport(functionCallHistory[k].name)
    /\ \A k \in DOMAIN functionCalls : ~IsReport(functionCalls[k].name)

\* C1: with budget N, a model that answers every turn with tool calls and never
\* calls `report` is invoked exactly N times, and the run returns finalResult = null;
\* at no point have more than N invocations been made.
C1_BudgetExactlyN ==
    /\ pc # "start" => Len(GenerateEvents) <= maxIterations
    /\ (pc = "returned" /\ AlwaysCallsNeverReports)
          => (finalResult = JSNull /\ Len(GenerateEvents) = maxIterations)

C1_Witness ==
    /\ pc = "returned"
    /\ AlwaysCallsNeverReports
    /\ maxIterations = 2
    /\ Len(GenerateEvents) = 2

\* index of the first `report` call of a batch, 0 if there is none
FirstReport(calls) ==
    IF \E k \in DOMAIN calls : IsReport(calls[k].name)
    THEN CHOOSE k \in DOMAIN calls :
            IsReport(calls[k].name) /\ \A m \in 1..(k - 1) : ~IsReport(calls[m].name)
    ELSE 0

\* the positions of the batch of turn t that were dispatched, in dispatch order
DispatchedOf(t) ==
    LET ds == SelectSeq(DispatchEvents, LAMBDA ev : ev.turn = t)
    IN  [k \in DOMAIN ds |-> ds[k].idx]

\* C2: once the run has ended in a turn whose batch holds `report`, the run has
\* returned that call's arguments, the calls before it were dispatched in order,
\* none after it was, and the turn's model invocation was the last one.
C2_FinalizeEndsRun ==
    (Terminal /\ FirstReport(functionCalls) > 0 /\ Len(GenerateEvents) > 0) =>
        LET k == FirstReport(functionCalls)
            t == GenerateEvents[Len(GenerateEvents)].turn
        IN  /\ pc = "returned"
            /\ finalResult = functionCalls[k].args
            /\ DispatchedOf(t) = [m \in 1..k |-> m]
            /\ trace[Len(trace)].ev = "return"
            /\ Len(GenerateEvents) = t

\* C3: a turn without tool calls is the last thing the run does: it returns with
\* finalResult = null, no tool is dispatched for that turn, and on the first turn
\* no tool has been dispatched by the loop at all.
C3_NoCallTerminates ==
    \A k \in DOMAIN trace :
        (trace[k].ev = "generate" /\ trace[k].n = 0) =>
            /\ pc = "returned"
            /\ finalResult = JSNull
            /\ k = Len(trace) - 1
            /\ trace[Len(trace)].ev = "warn"
            /\ DispatchedOf(trace[k].turn) = <<>>
            /\ Len(GenerateEvents) = trace[k].turn
            /\ trace[k].turn = 1 => functionCallHistory = <<>>

C3_Witness ==
    /\ pc = "returned"
    /\ Len(GenerateEvents) = 2
    /\ GenerateEvents[2].n = 0
    /\ Len(functionCallHistory) > 0

\* C4: every dispatch that threw left a call record tagged `error` with the
\* error's message and, in the conversation, the call turn followed by an
\* error-tagged response turn; the loop went on, and the run never ends by an
\* exception of a tool.
C4_ToolFailuresFolded ==
    /\ \A k \in DOMAIN DispatchEvents :
          DispatchEvents[k].threw =>
              /\ k \in DOMAIN functionCallHistory
              /\ functionCallHistory[k].key = "error"
              /\ functionCallHistory[k].result
                    = JSString(<<"Error: ">> \o DispatchEvents[k].message)
              /\ Len(contents) >= 2 * k + 1
              /\ contents[2 * k].part = "functionCall"
              /\ contents[2 * k].payload = functionCallHistory[k].args
              /\ contents[2 * k + 1].part = "functionResponse"
              /\ contents[2 * k + 1].key = "error"
              /\ contents[2 * k + 1].payload = functionCallHistory[k].result
    /\ (Len(trace) > 0 /\ trace[Len(trace)].ev = "dispatch" /\ trace[Len(trace)].threw)
          => pc \in {"dispatch", "generate"}
    /\ pc = "threw" =>
          trace[Len(trace)].from \in {"createExploreFunctions", "generateContent",
                                      "finalResult.status"}
    /\ (pc = "threw" /\ trace[Len(trace)].from = "finalResult.status")
          => ~trace[Len(trace) - 1].threw

\* a tool implementation threw in turn 1 and the model was invoked again
C4_Witness ==
    /\ Len(GenerateEvents) = 2
    /\ \E k \in DOMAIN DispatchEvents :
          /\ DispatchEvents[k].threw
          /\ DispatchEvents[k].impl
          /\ DispatchEvents[k].turn = 1

\* C5: every dispatch of a name outside the declared tool set fails with
\* "Function '<name>' not found" without running an implementation, is recorded
\* as an error, and the loop goes on.
C5_ToolNotFound ==
    \A k \in DOMAIN DispatchEvents :
        LET name == functionCallHistory[k].name.v[1]
        IN  (name \notin DeclaredTools /\ name # "unknown") =>
                /\ DispatchEvents[k].threw
                /\ DispatchEvents[k].message = <<"Function '", name, "' not found">>
                /\ ~DispatchEvents[k].impl
                /\ functionCallHistory[k].key = "error"
                /\ (k = Len(DispatchEvents) /\ trace[Len(trace)].ev = "dispatch")
                      => pc \in {"dispatch", "generate"}

ReportProcessed == \E k \in DOMAIN functionCallHistory : IsReport(functionCallHistory[k].name)

\* C6: a finished run has returned a non-null finalResult exactly if the loop
\* processed a `report` call, and then finalResult is that call's arguments;
\* after a turn without calls and after budget exhaustion it has returned null.
C6_ResultPresence ==
    Terminal =>
        /\ (pc = "returned" /\ finalResult # JSNull) <=> ReportProcessed
        /\ ReportProcessed =>
              finalResult = functionCallHistory[Len(functionCallHistory)].args
        /\ (Len(trace) > 0 /\ trace[Len(trace)].ev = "warn") =>
              (pc = "returned" /\ finalResult = JSNull)

SameCall(a, e, op, path) == a.op = op /\ a.path = path

\* C7 as stated: the backing API is invoked at most once per instance, operation
\* and path, whatever the calls' outcomes.
C7_AtMostOneRequest ==
    \A e \in Instances, op \in {"readFile", "listDir"}, path \in Paths :
        Cardinality({k \in DOMAIN apiCalls[e] : SameCall(apiCalls[e][k], e, op, path)}) <= 1

\* C7 amended: per instance, operation and path at most one request succeeds and
\* none follows it; every call made after a success issues no request and
\* returns the value of that success, an empty text or listing included.
C7_AtMostOneFetch ==
    /\ \A e \in Instances : \A k \in DOMAIN apiCalls[e] :
          apiCalls[e][k].ok =>
              \A m \in DOMAIN apiCalls[e] :
                  (m > k) => ~SameCall(apiCalls[e][m], e, apiCalls[e][k].op, apiCalls[e][k].path)
    /\ lastExplore.prior.t # "undefined" =>
          /\ lastExplore.requests = <<>>
          /\ lastExplore.out = Returned(lastExplore.prior)

\* a repeated listDir of an empty directory is served from the cache
C7_Witness ==
    /\ lastExplore.op = "listDir"
    /\ lastExplore.prior = JSArray(<<>>)
    /\ lastExplore.requests = <<>>

\* what a successful call returns when it is answered from `response`
Served(op, response) ==
    IF op = "readFile" THEN JSString(Base64Decode(response.content))
    ELSE JSArray(response.names)

\* C8: an instance's cache holds only what the instance fetched itself, and a
\* call for a path the instance has not fetched yet goes to the backing API and
\* returns what that request answered, whatever the other instance holds.
C8_CachesIsolated ==
    /\ \A e \in Instances : \A key \in DOMAIN repoCache[e] :
          key \in DOMAIN fetched[e] /\ repoCache[e][key] = fetched[e][key]
    /\ (lastExplore.n > 0 /\ lastExplore.prior.t = "undefined") =>
          /\ Len(lastExplore.requests) = 1
          /\ ~lastExplore.out.threw =>
                lastExplore.out.value = Served(lastExplore.op, lastExplore.response)

\* both instances are bound to the same repository and have read the same path,
\* each with its own request and its own content
C8_Witness ==
    /\ explorers[1].repoFullName = explorers[2].repoFullName
    /\ lastExplore.inst = 2
    /\ lastExplore.op = "readFile"
    /\ lastExplore.path = "a"
    /\ Len(lastExplore.requests) = 1
    /\ <<"file", explorers[1].repoFullName, "a">> \in DOMAIN repoCache[1]
    /\ <<"file", explorers[2].repoFullName, "a">> \in DOMAIN repoCache[2]
    /\ repoCache[1][<<"file", explorers[1].repoFullName, "a">>] # lastExplore.out.value

\* C9: executeCommand on an instance on which no createContainer has succeeded
\* fails with the fixed message and makes no call to the container runtime.
C9_ExecNeedsContainer ==
    (lastDocker.op = "executeCommand" /\ ~createdOk[lastDocker.inst]) =>
        /\ lastDocker.out = Threw(NoContainerMessage)
        /\ lastDocker.calls = <<>>

\* the other instance holds a container, this one saw a build and a failed create
C9_Witness ==
    /\ lastDocker.op = "executeCommand"
    /\ lastDocker.inst = 2
    /\ ~createdOk[2]
    /\ createdOk[1]
    /\ lastDocker.n = 3

\* C10: a rejected request with status 404 gives "File not found: <path>" from
\* readFile and "Directory not found: <path>" from listDir; any other status
\* gives "Failed to read file <path>: <message>" and
\* "Failed to list directory <path>: <message>".
C10_ErrorMapping ==
    (Len(lastExplore.requests) = 1 /\ lastExplore.response.k = "reject") =>
        LET path == lastExplore.path
            message == lastExplore.response.message
        IN  /\ lastExplore.out.threw
            /\ lastExplore.out.value.v =
                  IF lastExplore.response.status = 404
                  THEN IF lastExplore.op = "readFile"
                       THEN <<"File not found: ", path>>
                       ELSE <<"Directory not found: ", path>>
                  ELSE IF lastExplore.op = "readFile"
                       THEN <<"Failed to read file ", path, ": ">> \o message
                       ELSE <<"Failed to list directory ", path, ": ">> \o message

C10_Witness ==
    /\ lastExplore.op = "listDir"
    /\ lastExplore.path = "."
    /\ lastExplore.response = RequestError(500, "Internal Server Error")
    /\ lastExplore.out.threw

\* the text of `message` contains the text `piece`
Contains(message, piece) == \E k \in DOMAIN message : message[k] = piece

\* C11: readFile answered by a directory listing throws a message containing
\* "is a directory, not a file", listDir answered by a single object throws a
\* message containing "is a file, not a directory"; neither returns nor caches
\* a value.
C11_KindMismatch ==
    (Len(lastExplore.requests) = 1 /\ lastExplore.response.k = "data") =>
        LET e == lastExplore.inst
            path == lastExplore.path
            name == explorers[e].repoFullName
        IN  /\ (lastExplore.op = "readFile" /\ lastExplore.response.isArray) =>
                  /\ lastExplore.out.threw
                  /\ Contains(lastExplore.out.value.v, " is a directory, not a file")
                  /\ <<"file", name, path>> \notin DOMAIN repoCache[CacheOf(e)]
            /\ (lastExplore.op = "listDir" /\ ~lastExplore.response.isArray) =>
                  /\ lastExplore.out.threw
                  /\ Contains(lastExplore.out.value.v, " is a file, not a directory")
                  /\ <<"dir", name, path>> \notin DOMAIN repoCache[CacheOf(e)]

\* readFile of a directory, after a listDir of a file
C11_Witness ==
    /\ lastExplore.n = 2
    /\ lastExplore.op = "readFile"
    /\ lastExplore.response = ListData(<<"x">>)
    /\ lastExplore.out =
          Threw(<<"Failed to read file ", "a", ": ", "a", " is a directory, not a file">>)
    /\ \E k \in DOMAIN apiCalls[lastExplore.inst] :
          apiCalls[lastExplore.inst][k].op = "listDir" /\ ~apiCalls[lastExplore.inst][k].ok

\* the identity is an owner and a repo around a single "/"
WellFormed(repoFullName) ==
    LET segments == Split(repoFullName)
    IN  Len(segments) = 2 /\ segments[1] # <<>> /\ segments[2] # <<>>

\* C12: createExploreFunctions issues no request and throws "Invalid repository
\* name format: <input>. Expected 'owner/repo'" exactly for the identities that
\* are not a non-empty owner and a non-empty repo around a single "/".
C12_EagerValidation ==
    lastExplore.op = "createExploreFunctions" =>
        /\ lastExplore.requests = <<>>
        /\ lastExplore.out.threw <=> ~WellFormed(lastExplore.repoFullName)
        /\ lastExplore.out.threw =>
              lastExplore.out.value.v =
                  <<"Invalid repository name format: ">> \o lastExplore.repoFullName
                  \o <<". Expected 'owner/repo'">>

\* C13: a run of either agent that leaves its loop by a turn without tool calls
\* or by using up its budget has returned, with a null result.
C13_SharedTerminalStates ==
    (Terminal /\ Len(trace) > 0) =>
        LET last == trace[Len(trace)]
        IN  (last.ev = "warn" \/ (last.ev = "throw" /\ last.from \in {"break", "exhausted"}))
                => (pc = "returned" /\ finalResult = JSNull)

\* C14: when a cleanup() call has completed, no temporary directory created
\* through the TmpDirManager is left on disk and the tracking set is empty.
C14_CleanupCoversAll ==
    (lastDocker.op = "cleanup" /\ ~lastDocker.out.threw) =>
        /\ disk = {}
        /\ dirs = {}

\* C15: whenever the command was executed, executeCommand returned the captured
\* text, the shell's "not found" line or the empty text of a non-zero exit
\* included: the exit code never turns the call into an error.
C15_FailureIsAValue ==
    (/\ lastDocker.op = "executeCommand"
     /\ Len(lastDocker.calls) > 0
     /\ lastDocker.calls[Len(lastDocker.calls)] = "execStart") =>
        /\ ~lastDocker.out.threw
        /\ lastDocker.out.value.t = "string"
        /\ lastDocker.exitCode = 127 =>
              lastDocker.out.value.v = <<"sh: ", "nonexistent-command", ": not found">>
        /\ lastDocker.exitCode = 42 => lastDocker.out.value.v = <<>>

\* `exit 42` in a restarted container
C15_Witness ==
    /\ lastDocker.op = "executeCommand"
    /\ lastDocker.exitCode = 42
    /\ lastDocker.out = Returned(JSString(<<>>))
    /\ lastDocker.calls = <<"inspect", "start", "exec", "execStart">>

\* one step of the Sandbox Manager, seen through the record of its last call
C19_Step ==
    LET s == lastDocker'.inst
        called == lastDocker'.n = lastDocker.n + 1
        created == /\ called
                   /\ lastDocker'.op = "createContainer"
                   /\ ~lastDocker'.out.threw
    IN  /\ created =>
              /\ lastDocker'.out.value = JSString(<<"c", Len(containers')>>)
              /\ sandboxes'[s].containerId = lastDocker'.out.value
              /\ \A o \in Instances \ {s} :
                    sandboxes'[o].containerId = sandboxes[o].containerId
        /\ ~created =>
              \A o \in Instances : sandboxes'[o].containerId = sandboxes[o].containerId
        /\ (called /\ lastDocker'.op = "createContainer") =>
              \A id \in DOMAIN containers :
                    id \in DOMAIN containers' /\ containers'[id] = containers[id]
        /\ (called /\ lastDocker'.op = "executeCommand" /\ lastDocker'.calls # <<>>) =>
              sandboxes[s].containerId = JSString(<<"c", lastDocker'.target>>)

\* C19: a successful createContainer makes the container it returns, the newest
\* one, the instance's active container; nothing else changes an active
\* container; executeCommand addresses the active container of its instance;
\* createContainer leaves every earlier container as it was.
C19_ActiveContainerOverwrite == [][C19_Step]_vars

\* a command runs in the second container of instance 1 while its first one is
\* still running
C19_Witness ==
    /\ lastDocker.op = "executeCommand"
    /\ lastDocker.inst = 1
    /\ lastDocker.n = 3
    /\ lastDocker.target = 2
    /\ ~createdOk[2]
    /\ Len(containers) = 2
    /\ containers[1].running

\* one executeCommand call that reached the container runtime
C20_Step ==
    (/\ lastDocker'.n = lastDocker.n + 1
     /\ lastDocker'.op = "executeCommand"
     /\ lastDocker'.calls # <<>>) =>
        LET calls == lastDocker'.calls
            id == lastDocker'.target
            wasRunning == containers[id].running
        IN  /\ \A k \in DOMAIN calls : (calls[k] = "inspect") <=> (k = 1)
            /\ wasRunning => \A k \in DOMAIN calls : calls[k] # "start"
            /\ (~wasRunning /\ Len(calls) > 1) => calls[2] = "start"
            /\ \A k \in DOMAIN calls :
                  calls[k] = "exec" =>
                      /\ wasRunning \/ \E m \in 1..(k - 1) : calls[m] = "start"
                      /\ containers'[id].running

\* C20: executeCommand inspects the active container first; a container found
\* stopped is started before the command is executed, a running one is not
\* started again; the command is executed only in a running container.
C20_SelfHeals == [][C20_Step]_vars

\* the container was stopped behind the instance's back and started again
C20_Witness ==
    /\ lastDocker.op = "executeCommand"
    /\ lastDocker.calls = <<"inspect", "start", "exec", "execStart">>
    /\ lastDocker.exitCode = 127
    /\ containers[lastDocker.target].running

\* the driver's own events, in order
DriverEvents == SelectSeq(trace, LAMBDA ev : ev.ev \in {"skip", "process"})

Selected(result) == result.isFlakyTestIssue \/ driver.force

\* the issues of the records of a list of output records
IssuesOf(records) == [k \in DOMAIN records |-> records[k].issue]

\* C16: the driver reaches the issues in input order and calls the agent for
\* an issue exactly if it is flaky or force is set; every model invocation
\* belongs to the run of such an issue; the records collected so far, and the
\* output once written, are those of the selected issues in input order.
C16_DriverSelection ==
    driver.pc \in {"loop", "running", "written", "threw"} =>
        /\ \A k \in DOMAIN DriverEvents :
              /\ DriverEvents[k].turn = k
              /\ (DriverEvents[k].ev = "process") <=> Selected(driver.filteredResults[k])
        /\ \A k \in DOMAIN trace :
              trace[k].ev = "generate" =>
                  \E m \in 1..(k - 1) :
                      /\ trace[m].ev = "process"
                      /\ \A j \in (m + 1)..(k - 1) : trace[j].ev \notin {"skip", "process"}
        /\ driver.pc \in {"loop", "written"} =>
              /\ Len(DriverEvents) = driver.i
              /\ IssuesOf(driver.finalOutput) =
                    SelectSeq(SubSeq(driver.filteredResults, 1, driver.i), Selected)
        /\ driver.pc = "written" =>
              /\ driver.i = Len(driver.filteredResults)
              /\ driver.written = driver.finalOutput

\* without force, of a non-flaky and a flaky issue only the second one was run
C16_Witness ==
    /\ driver.pc = "written"
    /\ ~driver.force
    /\ Len(driver.filteredResults) = 2
    /\ ~driver.filteredResults[1].isFlakyTestIssue
    /\ Len(driver.written) = 1
    /\ driver.written[1].issue = driver.filteredResults[2]
    /\ Len(GenerateEvents) = 1

IsPrefix(a, b) == Len(a) <= Len(b) /\ SubSeq(b, 1, Len(a)) = a

\* the records of the dispatched calls other than `report`
ToolRecords == SelectSeq(functionCallHistory, LAMBDA h : ~IsReport(h.name))

\* the conversation is the initial user turn followed, for each dispatched call
\* other than `report` in dispatch order, by its call turn and its response turn
C17_Chronological ==
    /\ pc \in {"generate", "dispatch", "returned"} => Len(contents) > 0
    /\ Len(contents) > 0 =>
          /\ contents[1].role = "user" /\ contents[1].part = "text"
          /\ Len(contents) = 1 + 2 * Len(ToolRecords)
          /\ \A k \in DOMAIN ToolRecords :
                /\ contents[2 * k].role = "model"
                /\ contents[2 * k].part = "functionCall"
                /\ contents[2 * k].payload = ToolRecords[k].args
                /\ ToolRecords[k].name \in {contents[2 * k].name, Name("unknown")}
                /\ contents[2 * k + 1].role = "user"
                /\ contents[2 * k + 1].part = "functionResponse"
                /\ contents[2 * k + 1].name = contents[2 * k].name
                /\ contents[2 * k + 1].payload = ToolRecords[k].result
                /\ contents[2 * k + 1].key = ToolRecords[k].key

\* C17: the conversation only ever grows at its end, starts with the single
\* initial user turn, and holds for each dispatched call other than `report`
\* its call turn immediately followed by its response turn, in dispatch order.
C17_AppendOnly == []C17_Chronological /\ [][IsPrefix(contents, contents')]_vars

\* two calls of one batch, the first of which failed, then the next turn
C17_Witness ==
    /\ Len(contents) = 5
    /\ contents[3].key = "error"
    /\ contents[5].key = "output"
    /\ Len(GenerateEvents) = 2
    /\ GenerateEvents[1].n = 2

\* the dispatches made so far for the batch of the current turn
CurrentDispatches ==
    IF Len(GenerateEvents) = 0 THEN <<>>
    ELSE DispatchedOf(GenerateEvents[Len(GenerateEvents)].turn)

\* C18: every dispatch directly follows the model invocation that returned its
\* batch (first call) or the completed dispatch of the call before it; a model
\* invocation other than the first directly follows the dispatch of the last
\* call of the previous batch; the calls are dispatched in the order of the
\* batch, each after the history record of the one before it.
C18_SequentialDispatch ==
    /\ \A k \in DOMAIN trace :
          /\ trace[k].ev = "dispatch" =>
                /\ k > 1
                /\ trace[k - 1].ev \in {"generate", "dispatch"}
                /\ trace[k - 1].turn = trace[k].turn
                /\ trace[k - 1].ev = "generate" =>
                      (trace[k].idx = 1 /\ trace[k - 1].n >= 1)
                /\ trace[k - 1].ev = "dispatch" => trace[k].idx = trace[k - 1].idx + 1
          /\ (trace[k].ev = "generate" /\ trace[k].turn > 1) =>
                /\ k > trace[k - 1].idx + 1
                /\ trace[k - 1].ev = "dispatch"
                /\ trace[k - 1].turn = trace[k].turn - 1
                /\ trace[k - 1 - trace[k - 1].idx].ev = "generate"
                /\ trace[k - 1 - trace[k - 1].idx].n = trace[k - 1].idx
          /\ (trace[k].ev = "generate" /\ trace[k].turn = 1) => k = 1
    /\ pc \in {"generate", "dispatch", "returned", "threw"} =>
          LET m == Len(CurrentDispatches)
              done == Len(functionCallHistory) - m
          IN  /\ m <= Len(functionCalls)
              /\ done >= 0
              /\ \A j \in 1..m :
                    /\ CurrentDispatches[j] = j
                    /\ functionCallHistory[done + j].args = functionCalls[j].args
                    /\ functionCallHistory[done + j].name \in
                          {functionCalls[j].name, Name("unknown")}
              /\ pc = "dispatch" => callIdx = m + 1

\* a batch of two different calls was dispatched and the model invoked again
C18_Witness ==
    /\ Len(GenerateEvents) = 2
    /\ GenerateEvents[1].n = 2
    /\ Len(functionCallHistory) = 2
    /\ functionCallHistory[1].name # functionCallHistory[2].name
    /\ trace[Len(trace)].ev = "generate"
    /\ pc = "dispatch"

\* one call of buildImage or createContainer on an instance
C21_Step ==
    LET s == lastDocker'.inst
        called == lastDocker'.n = lastDocker.n + 1
        made == dirs' \ dirs
    IN  /\ (called /\ lastDocker'.op = "buildImage") =>
              /\ sandboxes[s].repoUrl.t = "undefined" =>
                    sandboxes'[s].repoDir = sandboxes[s].repoDir
              /\ sandboxes[s].repoUrl.t # "undefined" =>
                    /\ sandboxes'[s].repoDir.t = "string"
                    /\ sandboxes'[s].repoDir.v \in made
                    /\ sandboxes'[s].repoDir.v[1] = "repo-clone"
              /\ \A t \in Instances \ {s} : sandboxes'[t].repoDir = sandboxes[t].repoDir
        /\ ~(called /\ lastDocker'.op = "buildImage") =>
              \A t \in Instances : sandboxes'[t].repoDir = sandboxes[t].repoDir
        /\ (called /\ lastDocker'.op = "createContainer") =>
              /\ Len(containers') <= Len(containers) + 1
              /\ SubSeq(containers', 1, Len(containers)) = containers
              /\ Len(containers') = Len(containers) + 1 =>
                    containers'[Len(containers')].binds =
                        IF sandboxes[s].repoDir.t = "undefined" THEN <<>>
                        ELSE <<<<sandboxes[s].repoDir.v, ":/workspace">>>>

\* an instance without a source repository never holds a clone directory; a
\* mounted directory is a clone directory, mounted at /workspace
C21_ClonesOnly ==
    /\ \A s \in Instances :
          sandboxes[s].repoUrl.t = "undefined" => sandboxes[s].repoDir.t = "undefined"
    /\ \A id \in DOMAIN containers :
          /\ Len(containers[id].binds) <= 1
          /\ \A k \in DOMAIN containers[id].binds :
                /\ containers[id].binds[k][1][1] = "repo-clone"
                /\ containers[id].binds[k][2] = ":/workspace"

\* C21: buildImage on an instance with a source repository makes the clone
\* directory it has just created the instance's repoDir, and nothing else
\* changes a repoDir; createContainer mounts exactly the instance's repoDir at
\* /workspace, and nothing when the instance holds none (no source repository
\* or no buildImage before); a build-context directory is never mounted.
C21_BindFollowsClone == []C21_ClonesOnly /\ [][C21_Step]_vars

\* instance 1 built twice and its container mounts the clone of the second build
C21_Witness ==
    /\ lastDocker.op = "createContainer"
    /\ lastDocker.inst = 1
    /\ lastDocker.n = 3
    /\ Len(containers) = 1
    /\ containers[1].binds = <<<<sandboxes[1].repoDir.v, ":/workspace">>>>
    /\ \E d \in dirs : d[1] = "repo-clone" /\ d[2] < sandboxes[1].repoDir.v[2]

\* the message of a failed buildImage call, after the prefix of the outer catch
C22_Inner ==
    IF ~lastDocker.out.threw \/ Len(lastDocker.out.value.v) < 4 THEN <<>>
    ELSE SubSeq(lastDocker.out.value.v, 4, Len(lastDocker.out.value.v))

C22_IsBuildError == C22_Inner # <<>> /\ C22_Inner[1] = "Docker build failed: "

C22_IsImageMissing ==
    C22_Inner # <<>> /\ C22_Inner[1] = "Image build completed but image '"

C23_ShrinkingBudget ==
    \A k \in DOMAIN GenerateEvents :
        LET text == GenerateEvents[k].systemInstruction
        IN  /\ GenerateEvents[k].turn = k
            /\ k <= maxIterations
            /\ text = <<systemInstruction[1], ToString(maxIterations - k),
                        systemInstruction[3], ToString(maxIterations),
                        systemInstruction[5]>>
            /\ \A m \in DOMAIN text :
                  text[m] \notin {"{remainingIterations}", "{maxIterations}"}
            /\ k > 1 =>
                  \E r \in 0..maxIterations :
                      /\ text[2] = ToString(r)
                      /\ GenerateEvents[k - 1].systemInstruction[2] = ToString(r + 1)
            /\ (text[2] = "0") <=> (k = maxIterations)

\* the second and last invocation of a run with budget 2 was told 0 remain
C23_Witness ==
    /\ maxIterations = 2
    /\ Len(GenerateEvents) = 2
    /\ GenerateEvents[1].systemInstruction[2] = "1"
    /\ GenerateEvents[2].systemInstruction[2] = "0"
    /\ GenerateEvents[2].systemInstruction[4] = "2"

\* C24: the budget-exhaustion warning (reproducer.ts:287) is recorded only in
\* runs whose iteration counter reached maxIterations; a run that a turn
\* without tool calls ended carries no such warning.
C24_WarnOnlyWhenExhausted ==
    \A k \in DOMAIN trace :
        trace[k].ev = "warn" =>
            /\ trace[k].turn = maxIterations
            /\ k > 1 => ~(trace[k - 1].ev = "generate" /\ trace[k - 1].n = 0)

\* C25: a cleanup() call that has settled did not reject, whatever the file
\* system answered to the removals, and left the tracking set empty.
C25_CleanupNeverRaises ==
    lastDocker.op = "cleanup" =>
        /\ ~lastDocker.out.threw
        /\ dirs = {}

\* C26: once a signal or an uncaught error has reached the process during a
\* run, the agent loop invokes the model and dispatches tools no more; when
\* the process is gone, no tracked temporary directory is left on disk.
C26_SignalStopsRun ==
    /\ \A k \in DOMAIN trace :
          trace[k].ev = "signal" =>
              \A m \in (k + 1)..Len(trace) : trace[m].ev \notin {"generate", "dispatch"}
    /\ exited => dirs \cap disk = {}

\* one step of the registry
C27_Step ==
    LET made == nextDir' - nextDir
        drained == cleaning.pending /\ ~cleaning'.pending
    IN  /\ made >= 0
        /\ ~drained =>
              /\ dirs \subseteq dirs'
              /\ Cardinality(dirs' \ dirs) = made
              /\ (dirs' \ dirs) \cap disk = {}
              /\ (dirs' \ dirs) \subseteq disk'
        /\ drained => (made = 0 /\ dirs' \in {{}, dirs})
        /\ (lastDocker'.n = lastDocker.n + 1 /\ lastDocker'.op = "buildImage") =>
              /\ made >= 1
              /\ sandboxes[lastDocker'.inst].repoUrl.t # "undefined" =>
                    sandboxes'[lastDocker'.inst].repoDir.v \in dirs' \ dirs

\* C27: a step that is not the completion of a cleanup() call keeps every
\* tracked directory and adds exactly the directories created in it, each of
\* them new; only the completion of cleanup() removes entries; buildImage
\* tracks every directory it creates.
C27_AdditiveRegistry == [][C27_Step]_vars

\* directories were tracked, drained by a cleanup and the set grew again
C27_Witness ==
    /\ ~cleaning.pending
    /\ lastDocker.op = "buildImage"
    /\ Cardinality(dirs) = 2
    /\ nextDir = 4
    /\ dirs \subseteq disk

\* the initial root listing of the run failed
C28_ListingFailed ==
    /\ pc # "start"
    /\ Len(apiCalls[1]) >= 1
    /\ ~apiCalls[1][1].ok

\* C28: when the initial root listing has failed, nothing is thrown by the
\* setup of the run; the initial prompt holds "Error exploring repository: "
\* followed by the text of the error; the loop starts at its first turn, and a
\* run with a budget of at least 1 does not end before its first model
\* invocation.
C28_DegradedStart ==
    C28_ListingFailed =>
        /\ \A k \in DOMAIN trace :
              trace[k].ev = "throw" => trace[k].from = "generateContent"
        /\ Len(contents) >= 1
        /\ contents[1].role = "user"
        /\ contents[1].payload =
              JSString(<<"Error exploring repository: ", "Error: ">>
                       \o lastExplore.out.value.v)
        /\ lastExplore.response = RequestError(404, "Not Found") =>
              lastExplore.out.value.v = <<"Directory not found: ", ".">>
        /\ trace = <<>> => (pc = "generate" /\ i = 0)
        /\ (maxIterations >= 1 /\ pc \in {"returned", "threw"}) =>
              /\ trace # <<>>
              /\ trace[1].ev \in {"generate", "throw"}
              /\ trace[1].turn \in {0, 1}

\* the backend answered 500 to the root listing and the model was invoked
C28_Witness ==
    /\ C28_ListingFailed
    /\ lastExplore.response.k = "reject"
    /\ lastExplore.response.status = 500
    /\ Len(GenerateEvents) >= 1
    /\ GenerateEvents[1].turn = 1
    /\ Len(contents) >= 1
    /\ contents[1].payload.v[1] = "Error exploring repository: "

\* no agent run, sandbox call, repository request or write has happened
C29_NothingDone ==
    /\ trace = <<>>
    /\ pc = "idle"
    /\ contents = <<>>
    /\ functionCallHistory = <<>>
    /\ lastDocker = NoDockerCall
    /\ containers = <<>>
    /\ dirs = {}
    /\ \A e \in Instances : apiCalls[e] = <<>>
    /\ driver.finalOutput = <<>>
    /\ driver.written = <<>>

\* C29: when some record of the input fails validation, runReproducerAgent
\* has raised "Invalid FilteredResult: ..." and no model invocation, tool
\* dispatch, container operation or write has happened for any record, also
\* not for the valid records that precede the invalid one; it raises that
\* error only for an input with an invalid record.
C29_ValidationFirst ==
    driver.pc # "start" =>
        LET invalid == \E k \in DOMAIN driver.filteredResults :
                           ~driver.filteredResults[k].valid
            raised == /\ driver.pc = "threw"
                      /\ driver.error # <<>>
                      /\ driver.error[1] = "Invalid FilteredResult: "
        IN  /\ invalid <=> raised
            /\ invalid => C29_NothingDone

\* a valid flaky record followed by an invalid one: nothing was run
C29_Witness ==
    /\ driver.pc = "threw"
    /\ Len(driver.filteredResults) = 2
    /\ driver.filteredResults[1].valid
    /\ driver.filteredResults[1].isFlakyTestIssue
    /\ ~driver.filteredResults[2].valid
    /\ driver.error = <<"Invalid FilteredResult: ", "t4">>
    /\ trace = <<>>

ProcessEvents == SelectSeq(trace, LAMBDA ev : ev.ev = "process")

\* the repository of an issue of the driver that is at work
C30_RepoOf(issue) == IF driver.pc = "analyzing" THEN RepoMatch(issue.url) ELSE issue.repo

\* the runs started so far are the stored records plus at most the one run in
\* progress or the one that made the driver fail; outside a run the agent
\* loop is idle, in a run its tools are those of the issue the driver is at
C30_OneAtATime ==
    LET inRun == driver.pc \in {"running", "analyzing"}
        aborted == /\ driver.pc = "threw"
                   /\ driver.error \in {<<"reproduceWithGemini">>, <<"analyzeIssueWithGemini">>}
        started == Len(ProcessEvents)
        stored == Len(driver.finalOutput)
    IN  /\ ~inRun => pc = "idle"
        /\ driver.pc \in {"loop", "filterLoop", "written", "filtered"} =>
              /\ contents = <<>>
              /\ functionCalls = <<>>
              /\ finalResult = JSNull
        /\ started = stored + (IF inRun \/ aborted THEN 1 ELSE 0)
        /\ \A k \in 1..stored :
              driver.finalOutput[k].issue = driver.filteredResults[ProcessEvents[k].turn]
        /\ \A k \in 1..(started - 1) : ProcessEvents[k].turn < ProcessEvents[k + 1].turn
        /\ inRun =>
              /\ ProcessEvents[started].turn = driver.i + 1
              /\ pc \in {"generate", "dispatch", "returned"} =>
                    LET repo == C30_RepoOf(driver.filteredResults[driver.i + 1])
                    IN  /\ explorers[1] = NewExplorer(repo)
                        /\ driver.pc = "running" =>
                              sandboxes[1].repoUrl = JSString(RepoUrl(repo))
        /\ \A k \in DOMAIN trace :
              trace[k].ev \in {"generate", "dispatch"} =>
                  \E m \in 1..(k - 1) :
                      /\ trace[m].ev = "process"
                      /\ \A j \in (m + 1)..(k - 1) : trace[j].ev \notin {"skip", "process"}

\* a run starts with an empty Explorer cache and, in the reproduction driver, a
\* Sandbox Manager that holds neither a clone nor a container
C30_FreshTools ==
    (pc = "start" /\ pc' = "generate") =>
        LET repo == C30_RepoOf(driver.filteredResults[driver.i + 1])
        IN  /\ driver.pc = "running" =>
                  /\ sandboxes'[1] = NewSandbox(repo)
                  /\ DOMAIN repoCache'[CacheOf(1)] = {<<"dir", repo, ".">>}
                  /\ Len(apiCalls'[1]) = 1
            /\ driver.pc = "analyzing" =>
                  /\ repoCache'[CacheOf(1)] = <<>>
                  /\ apiCalls'[1] = <<>>

\* C30: under both drivers the agent loop is idle between runs; the run of an
\* issue has ended and its record is stored before the driver reaches the
\* next issue, so every model invocation and dispatch belongs to the one run
\* in progress; the tools of a run are those of its own issue and start from
\* an empty cache and a new Sandbox Manager.
C30_OneIssueAtATime == []C30_OneAtATime /\ [][C30_FreshTools]_vars

\* the second run of the reproduction driver has started after a first run
\* that created a container
C30_Witness ==
    /\ driver.pc = "running"
    /\ pc = "generate"
    /\ driver.i = 1
    /\ Len(driver.finalOutput) = 1
    /\ Len(driver.finalOutput[1].functionCallHistory) = 1
    /\ driver.finalOutput[1].functionCallHistory[1].name = Name("createContainer")
    /\ Len(containers) = 1
    /\ sandboxes[1].containerId = JSUndefined

\* C31: the loop hands no `report` call to runAiFunction: no dispatch is made
\* for it, its implementation is not invoked and functionCallHistory holds no
\* record of it.
C31_FinalizeIntercepted ==
    /\ \A k \in DOMAIN functionCallHistory : ~IsReport(functionCallHistory[k].name)
    /\ \A k \in DOMAIN DispatchEvents :
          (k <= Len(functionCallHistory) /\ IsReport(functionCallHistory[k].name)) =>
              ~DispatchEvents[k].impl

\* reproductionResultSchema (reproducer.ts:14-19) accepts the value
ReproductionResultSchema(args) ==
    /\ args.t = "object"
    /\ ArgOf(args, "status") \in {"success", "failure"}
    /\ ArgOf(args, "reason") # "undefined"

\* C32: the implementation of `report` is not invoked with arguments that
\* reproductionResultSchema rejects, and a run never returns such arguments
\* as its result.
C32_ArgumentsValidated ==
    /\ \A k \in DOMAIN DispatchEvents :
          (/\ k <= Len(functionCallHistory)
           /\ IsReport(functionCallHistory[k].name)
           /\ ~ReproductionResultSchema(functionCallHistory[k].args)) =>
              ~DispatchEvents[k].impl
    /\ (pc = "returned" /\ finalResult # JSNull) => ReproductionResultSchema(finalResult)

\* the tool-response turn holds the text the catch block builds from a thrown
\* error
C33_CarriesError(turn) ==
    /\ turn.part = "functionResponse"
    /\ turn.payload.t = "string"
    /\ turn.payload.v # <<>>
    /\ turn.payload.v[1] = "Error: "

\* C33: the response turn of a dispatch that threw is tagged `error`.
C33_FailuresTaggedError ==
    \A k \in DOMAIN contents : C33_CarriesError(contents[k]) => contents[k].key = "error"

\* the events of the run the driver started last
C34_RunEvents ==
    LET starts == {k \in DOMAIN trace : trace[k].ev = "process"}
        last == IF starts = {} THEN 0 ELSE CHOOSE k \in starts : \A m \in starts : m <= k
    IN  SubSeq(trace, last + 1, Len(trace))

\* generateContent calls the run in progress has made. The reproduction loop
\* leaves a `generate` event per answered call (reproducer.ts:226) and a throw
\* for the one that failed; a pass of the classification loop makes its call
\* before anything else (logger.ts:271), so that run has made i of them while
\* it waits at the loop head and i + 1 once it is past it
C34_Invocations ==
    LET run == C34_RunEvents
        last == run[Len(run)]
        failed == run # <<>> /\ last.ev = "throw" /\ last.from = "generateContent"
        atHead == \/ pc \in {"start", "generate"}
                  \/ /\ Terminal
                     /\ last.ev = "throw"
                     /\ last.from \in {"exhausted", "repoMatch", "createExploreFunctions"}
    IN  IF Reproducing
        THEN Len(SelectSeq(run, LAMBDA ev : ev.ev = "generate")) + (IF failed THEN 1 ELSE 0)
        ELSE IF atHead THEN i ELSE i + 1

\* a run of either loop is in progress
C34_InRun == driver.pc \in {"running", "analyzing"}

C34_WithinBudget ==
    C34_InRun =>
        /\ C34_Invocations <= maxIterations
        /\ (pc # "start") =>
              maxIterations = IF Reproducing THEN driver.maxIterations
                              ELSE AnalyzeMaxIterations

\* C34: a run never makes more model invocations than its budget (N for the
\* reproduction loop, 10 for the classification loop), and when every awaited
\* invocation and dispatch settles every run that starts reaches a terminal state.
C34_TerminatesWithinBudget ==
    /\ []C34_WithinBudget
    /\ C34_InRun ~> Terminal

C34_Witness ==
    /\ Analyzing
    /\ pc = "threw"
    /\ C34_Invocations = AnalyzeMaxIterations
    /\ Len(contents) > AnalyzeMaxIterations

\* the calls of the latest batch that the for loop has finished with: all of
\* them unless the loop is inside the batch or left it at `report`
C35_DoneOfBatch ==
    IF pc = "dispatch" THEN SubSeq(functionCalls, 1, callIdx - 1)
    ELSE IF /\ Terminal
            /\ \/ trace[Len(trace)].ev = "return"
               \/ trace[Len(trace)].ev = "throw" /\ trace[Len(trace)].from = "finalResult.status"
    THEN SubSeq(functionCalls, 1, callIdx)
    ELSE functionCalls

\* C35: functionCallHistory holds one record per call dispatched so far, in
\* dispatch order, tagged `error` exactly when the dispatch threw; the
\* conversation holds 1 + 2 x (dispatched calls other than `report`) turns.
C35_CallRecordAccounting ==
    pc \in {"generate", "dispatch", "returned", "threw"} /\ contents # <<>> =>
        /\ Len(functionCallHistory) = Len(DispatchEvents)
        /\ \A k \in DOMAIN functionCallHistory :
              (functionCallHistory[k].key = "error") <=> DispatchEvents[k].threw
        /\ LET done == C35_DoneOfBatch
               base == Len(functionCallHistory) - Len(done)
           IN  /\ base >= 0
               /\ \A k \in DOMAIN done :
                     /\ functionCallHistory[base + k].args = done[k].args
                     /\ functionCallHistory[base + k].name =
                           IF MissingName(done[k].name) THEN Name("unknown")
                           ELSE done[k].name
        /\ Len(contents) = 1 + 2 * (Len(DispatchEvents) - (Len(functionCallHistory) - Len(ToolRecords)))
        /\ \A k \in DOMAIN contents :
              contents[k].part = "functionCall" => ~IsReport(contents[k].name)

\* a failed call, an unnamed call and `report` in one run
C35_Witness ==
    /\ pc = "returned"
    /\ Len(functionCallHistory) = 3
    /\ functionCallHistory[1].key = "error"
    /\ functionCallHistory[2].name = Name("unknown")
    /\ IsReport(functionCallHistory[3].name)
    /\ Len(contents) = 5

\* this step is a readFile or listDir call
C36_ExploreCall ==
    /\ lastExplore'.n = lastExplore.n + 1
    /\ lastExplore'.op \in {"readFile", "listDir"}

\* a call that failed left every cache as it was; a call that changed a cache
\* made one request, returned, and added its value under its own key only
C36_Step ==
    C36_ExploreCall =>
        LET e == lastExplore'.inst
            key == <<IF lastExplore'.op = "readFile" THEN "file" ELSE "dir",
                     explorers[e].repoFullName, lastExplore'.path>>
        IN  /\ lastExplore'.out.threw => repoCache' = repoCache
            /\ repoCache' # repoCache =>
                  /\ ~lastExplore'.out.threw
                  /\ Len(lastExplore'.requests) = 1
                  /\ repoCache' = [repoCache EXCEPT ![CacheOf(e)] =
                                      SetProperty(@, key, lastExplore'.out.value)]

\* a call for which no request of this instance has succeeded yet goes to the
\* backend, however many requests for it have failed
C36_RetriedAfterFailure ==
    (lastExplore.op \in {"readFile", "listDir"} /\ lastExplore.prior.t = "undefined") =>
        Len(lastExplore.requests) = 1

\* C36: a failed readFile or listDir leaves the cache unchanged, a later call
\* for the same path asks the backend again, and only successful fetches
\* populate the cache.
C36_FailuresNotCached ==
    /\ []C36_RetriedAfterFailure
    /\ [][C36_Step]_vars

\* the same call failed first and then succeeded with a second request
C36_Witness ==
    /\ lastExplore.op \in {"readFile", "listDir"}
    /\ ~lastExplore.out.threw
    /\ Len(apiCalls[lastExplore.inst]) = 2
    /\ ~apiCalls[lastExplore.inst][1].ok
    /\ apiCalls[lastExplore.inst][2].ok
    /\ apiCalls[lastExplore.inst][1].request = apiCalls[lastExplore.inst][2].request
    /\ apiCalls[lastExplore.inst][1].op = apiCalls[lastExplore.inst][2].op

\* the requests this run's Explorer made before the call lastExplore describes
C37_Earlier ==
    IF lastExplore.requests = <<>> THEN apiCalls[1]
    ELSE SubSeq(apiCalls[1], 1, Len(apiCalls[1]) - 1)

\* C37: listDir(".") and listDir("") both request the backend path "", while the
\* cache is keyed by operation kind and the path as given: a call is served
\* without a request exactly if the same operation with the same path string
\* succeeded before. In a run whose pre-loop listDir(".") succeeded no later
\* listDir(".") reaches the backend.
C37_RootAliases ==
    /\ \A k \in DOMAIN apiCalls[1] :
          apiCalls[1][k].request.path =
              IF apiCalls[1][k].op = "listDir" /\ apiCalls[1][k].path \in {".", ""}
              THEN "" ELSE apiCalls[1][k].path
    /\ \A key \in DOMAIN repoCache[CacheOf(1)] :
          \E k \in DOMAIN apiCalls[1] :
              /\ apiCalls[1][k].ok
              /\ key = <<IF apiCalls[1][k].op = "readFile" THEN "file" ELSE "dir",
                         explorers[1].repoFullName, apiCalls[1][k].path>>
    /\ lastExplore.op \in {"readFile", "listDir"} =>
          /\ Len(lastExplore.requests) <= 1
          /\ (lastExplore.requests = <<>>) <=>
                \E k \in DOMAIN C37_Earlier :
                    /\ C37_Earlier[k].ok
                    /\ C37_Earlier[k].op = lastExplore.op
                    /\ C37_Earlier[k].path = lastExplore.path
    /\ (apiCalls[1] # <<>> /\ apiCalls[1][1].ok) =>
          \A k \in DOMAIN apiCalls[1] :
              (k > 1) => ~(apiCalls[1][k].op = "listDir" /\ apiCalls[1][k].path = ".")

\* after the pre-loop listing the model asked for listDir("."), listDir("") and
\* readFile("."): the first made no request, the other two one each
C37_Witness ==
    /\ Len(functionCallHistory) = 3
    /\ functionCallHistory[1].name = Name("listDir")
    /\ functionCallHistory[1].args = PathArgs(".")
    /\ functionCallHistory[1].key = "output"
    /\ Len(apiCalls[1]) = 3
    /\ apiCalls[1][1].ok
    /\ apiCalls[1][2].op = "listDir" /\ apiCalls[1][2].path = "" /\ apiCalls[1][2].ok
    /\ apiCalls[1][3].op = "readFile" /\ apiCalls[1][3].path = "."

\* C38: a directory that leaves the tracking set is on disk no more, whether it
\* was tracked when cleanup() took its snapshot or created while it awaited.
C38_NoneDroppedPresent ==
    [][\A d \in dirs \ dirs' : d \notin disk']_vars

\* a createContainer call that raised left the instance's closure state as it
\* was; an executeCommand call addresses the container that is active then, or
\* fails with the fixed message when there is none
C39_Step ==
    LET s == lastDocker'.inst
        called == lastDocker'.n = lastDocker.n + 1
    IN  /\ (called /\ lastDocker'.op = "createContainer" /\ lastDocker'.out.threw) =>
              /\ sandboxes' = sandboxes
              /\ lastDocker'.calls \in {<<"createContainer">>, <<"createContainer", "start">>}
        /\ (called /\ lastDocker'.op = "executeCommand") =>
              IF NoActiveContainer(sandboxes[s])
              THEN lastDocker'.out = Threw(NoContainerMessage) /\ lastDocker'.calls = <<>>
              ELSE sandboxes[s].containerId = JSString(<<"c", lastDocker'.target>>)

\* C39: a createContainer call that raises, at creation or at start, leaves the
\* instance's active container identifier as it was before the call.
C39_FailedCreateKeepsActive == [][C39_Step]_vars

\* instance 1 holds its first container after a second one failed to start
C39_Witness ==
    /\ lastDocker.op = "createContainer"
    /\ lastDocker.inst = 1
    /\ lastDocker.out.threw
    /\ lastDocker.calls = <<"createContainer", "start">>
    /\ Len(containers) = 2
    /\ sandboxes[1].containerId = JSString(<<"c", 1>>)

\* output exists only once the loop over the issues has ended, and then it is
\* the whole list of records; a driver that failed has written nothing
C40_WrittenOnlyAtEnd ==
    /\ driver.written # <<>> =>
          /\ driver.pc = "written"
          /\ driver.i = Len(driver.filteredResults)
          /\ driver.written = driver.finalOutput
    /\ driver.pc = "threw" => driver.written = <<>>

\* C40: runReproducerAgent writes only after every issue has been processed; a
\* run that raises writes nothing, the records of completed issues included.
C40_AllOrNothing ==
    /\ []C40_WrittenOnlyAtEnd
    /\ [][driver'.written # driver.written =>
             /\ driver.pc = "loop"
             /\ driver.i >= Len(driver.filteredResults)]_vars

\* the second issue's run raised after the first one's record was collected
C40_Witness ==
    /\ driver.pc = "threw"
    /\ driver.error = <<"reproduceWithGemini">>
    /\ Len(driver.finalOutput) = 1
    /\ driver.i = 1
    /\ driver.written = <<>>

====
